---- MODULE Spec2Model ----
(***************************************************************************)
(* Model of the Bitswap network behaviour of                               *)
(* packages/beetle-bitswap-next/src/lib.rs: the per-connection state       *)
(* machine (on_swarm_event, on_connection_handler_event), the outbound     *)
(* dispatch loop (poll) and the three inbound worker tasks spawned by      *)
(* Bitswap::new.                                                           *)
(*                                                                         *)
(* A record constructor lists its fields in the order in which their names *)
(* first occur in this module.  That is the order in which TLC keeps a     *)
(* record, so a value that two TLC workers evaluate at the same time is    *)
(* never rearranged while the other one reads it.                          *)
(***************************************************************************)
EXTENDS Integers, Sequences, FiniteSets, TLC

(***************************************************************************)
(* Bounds of the exploration.                                              *)
(***************************************************************************)
\* connection ids the swarm hands out during one run (ConnectionId is a counter, never reused)
MaxConns == 2
\* Dial requests the network handle issues during one run (dial ids are a counter)
MaxDials == 2
\* Message handler events during one run (each message gets the next arrival number)
MaxMsgs == 2
\* events that may wait in the network output channel
MaxNetQ == 2
\* buffer of each inbound channel, mpsc::channel(2048) in the source, scaled down
ChanCap == 1
\* peer_connected notifications that may wait in their channel during one run
MaxQueued == 2
\* iterations of the poll loop (50 in the source, scaled down)
PollLimit == 2
\* calls of notify_new_blocks during one run
MaxCalls == 2
\* wantlist entries of a message that is decoded
MaxEntries == 2

Peers == {"p1", "p2"}
ConnIds == 1..MaxConns
Protocols == {"1.1.0", "1.2.0"}
NoProtocol == "none"
NoPeer == "nopeer"
DialErrors == {"dial error"}

(***************************************************************************)
(* Blocks: a CID (here its multihash: hash code and digest) and the data.  *)
(* Digest stands for the hash function of a code: it is a function of the  *)
(* data, and different data have different digests.                        *)
(***************************************************************************)
KnownCodes == {"sha2-256"}
Datas == {"d1", "d2"}
\* the data of a block on the wire: some bytes, or none
BlockDatas == Datas \cup {""}
Digest(code, data) == <<code, data>>
Block(code, digest, data) == [code |-> code, data |-> data, digest |-> digest]

\* a block whose data hash to its CID, one whose data do not, one with a hash code the
\* multihash table does not know
GoodBlock == Block("sha2-256", Digest("sha2-256", "d1"), "d1")
BadBlock == Block("sha2-256", Digest("sha2-256", "d2"), "d1")
UnknownBlock == Block("unknown", Digest("unknown", "d1"), "d1")

\* the block sets a message may carry
NoBlocks == {{}}
AnyBlocks == {{}, {GoodBlock, BadBlock}, {UnknownBlock}}

\* the mutant: no hash code is known
VerifyHash_None(b) == [some |-> FALSE, eq |-> FALSE]

\* the mutant: an unknown hash code gives Some(false)
VerifyHash_Lenient(b) ==
    IF b.code \in KnownCodes
    THEN [some |-> TRUE, eq |-> Digest(b.code, b.data) = b.digest]
    ELSE [some |-> TRUE, eq |-> FALSE]

\* verify_hash: None for an unknown hash code, else Some(digest of the bytes = hash of the cid)
VerifyHash(b) ==
    IF b.code \in KnownCodes
    THEN [some |-> TRUE, eq |-> Digest(b.code, b.data) = b.digest]
    ELSE [some |-> FALSE, eq |-> FALSE]

\* BitswapMessage::verify_blocks: the blocks are retained for which verify_hash is Some(true)
VerifyBlocks(B) == {b \in B : VerifyHash(b) = [some |-> TRUE, eq |-> TRUE]}

(***************************************************************************)
(* enum ConnectionState                                                    *)
(***************************************************************************)
Pending == [tag |-> "Pending", protocol |-> NoProtocol]
Responsive(v) == [tag |-> "Responsive", protocol |-> v]
Unresponsive == [tag |-> "Unresponsive", protocol |-> NoProtocol]

(***************************************************************************)
(* The value a dial response sink (oneshot::Sender) has been given.        *)
(***************************************************************************)
SinkUnused == [tag |-> "unused", protocol |-> NoProtocol, conn |-> 0, err |-> "none"]
SinkPending == [tag |-> "pending", protocol |-> NoProtocol, conn |-> 0, err |-> "none"]
SinkOk(c, v) == [tag |-> "Ok", protocol |-> v, conn |-> c, err |-> "none"]
SinkErr(e) == [tag |-> "Err", protocol |-> NoProtocol, conn |-> 0, err |-> e]
SinkDropped == [tag |-> "dropped", protocol |-> NoProtocol, conn |-> 0, err |-> "none"]

VARIABLES
    established,      \* swarm: the connections established and not yet closed, <<peer, id>>
    nextConn,         \* swarm: the next ConnectionId
    last_conn,        \* per peer, the id of its most recently established connection (0: none yet)
    connected_peers,  \* Bitswap.connected_peers: peer -> set of connection ids
    connection_state, \* Bitswap.connection_state: connection id -> ConnectionState
    dials,            \* Bitswap.dials: peer -> sequence of dial ids (each with its sink)
    sinks,            \* dial id -> what its response sink was sent
    nextDial,         \* network handle: the next dial id
    netQ,             \* the network output channel polled by the behaviour
    msgQ,             \* channel incoming_messages
    conQ,             \* channel peers_connected
    disQ,             \* channel peers_disconnected
    nextMsg,          \* arrival number of the next Message handler event
    msg_limit,        \* Message handler events explored in this run
    server_on,        \* config.server is Some
    net_limit,        \* events that may wait in the network output channel in this run
    payloads,         \* the block sets the messages of this run may carry
    mw,               \* the message worker task
    clog,             \* messages client.receive_message has been called with, by arrival number
    cblocks,          \* the blocks of the messages client.receive_message has been called with
    slog,             \* messages server.receive_message has been called with
    cview,            \* per peer, the peer_connected / peer_disconnected calls the client got
    sview,            \* the same for the server
    con_count,        \* per peer, peer_connected calls since the peer gained its first connection (saturates at 2)
    codec,            \* the last use of the compat codec: its input, the bytes and the result
    replies,          \* the UnprotectPeer replies sent by the last poll call, in order
    swarm_out,        \* what the last poll call returned
    nb,               \* the calls of notify_new_blocks: where the current one is, and what came of them
    stop,             \* the call of stop: where it is, and which worker tasks have ended
    wl,               \* the last call of wantlist_for_peer: the peer asked about and the CIDs returned
    vh,               \* the last call of verify_hash: the CID's multihash, the bytes and the result
    fetch,            \* the client engine: get_block calls, the session stream, the wants a peer got
    store,            \* a MemBlockStore (repo/mem.rs), the calls made on it and the last result
    wake              \* the swarm task: about to poll, parked on the channel's waker, or asleep

vars == <<established, nextConn, last_conn, connected_peers, connection_state, dials, sinks,
          nextDial, netQ, msgQ, conQ, disQ, nextMsg, msg_limit, server_on, net_limit, payloads, mw,
          clog, cblocks, slog, cview, sview, con_count, codec, replies, swarm_out, nb, stop, wl, vh,
          fetch, store, wake>>

\* the variables of the swarm and of the behaviour's maps
conn_vars == <<established, nextConn, last_conn, connected_peers, connection_state>>
\* the variables of the dial bookkeeping
dial_vars == <<dials, sinks>>
\* the variables of the worker pipeline behind the three channels
pipe_vars == <<mw, clog, cblocks, slog, cview, sview>>
\* the run's configuration
cfg_vars == <<msg_limit, server_on, net_limit, payloads>>
\* the calls of the public methods notify_new_blocks, stop and wantlist_for_peer, and of
\* the public function verify_hash
api_vars == <<nb, stop, wl, vh>>
\* what lies outside lib.rs: the client engine and the block store
side_vars == <<fetch, store>>

(***************************************************************************)
(* Maps with a partial domain (AHashMap).                                  *)
(***************************************************************************)
EmptyMap == [x \in {} |-> 0]
MapPut(f, k, v) == [x \in (DOMAIN f) \cup {k} |-> IF x = k THEN v ELSE f[x]]
MapRemove(f, k) == [x \in (DOMAIN f) \ {k} |-> f[x]]
MapGetOr(f, k, d) == IF k \in DOMAIN f THEN f[k] ELSE d

SeqElems(s) == {s[i] : i \in 1..Len(s)}

NoOut == [conn |-> 0, type |-> "none", peer |-> NoPeer, handler |-> "none", waker |-> FALSE]

(***************************************************************************)
(* sender.clone().try_send(x) on a futures mpsc channel.  try_send returns *)
(* Err(Full) only when the sender it is called on is parked; a sender is   *)
(* parked by its own earlier send that found more than ChanCap items       *)
(* queued (every sender owns one slot on top of the shared buffer).  The   *)
(* behaviour sends each item through a new clone, which is not parked, so  *)
(* the item is queued whatever the length of the queue.  On Err the caller *)
(* logs a warning and drops the item.                                      *)
(***************************************************************************)
\* Sender::clone(): the new sender has not sent yet
ClonedSenderParked == FALSE

TrySend(q, x) == IF ClonedSenderParked THEN q ELSE Append(q, x)

\* ghost: one more peer_connected call for peer p
CountConnected(cnt, p) == [cnt EXCEPT ![p] = IF @ < 2 THEN @ + 1 ELSE 2]
\* ghost: peers that are no key of the map cp start a new connection period
ResetGone(cnt, cp) == [q \in Peers |-> IF q \in DOMAIN cp THEN cnt[q] ELSE 0]

\* the codec has not been used
NoCodec == [op |-> "none", input |-> <<>>, msg |-> <<>>, bytes |-> <<>>, output |-> <<>>]

\* no notify_new_blocks call yet
NoNotify ==
    [pc |-> "idle", blocks |-> {}, client |-> "none", server |-> "none", result |-> "none",
     calls |-> 0, cdone |-> {}, sent |-> {}]

\* stop has not been called: the behaviour holds the three senders, the three worker tasks run
NotStopped == [pc |-> "running", result |-> "none", senders |-> TRUE, ended |-> {}]

\* a second block whose data hash to its CID
OtherBlock == Block("sha2-256", Digest("sha2-256", "d2"), "d2")
\* no block (None)
NoBlock == Block("none", <<"none", "none">>, "none")

\* block.cid(): here the multihash
BlockCid(b) == <<b.code, b.digest>>

\* the blocks the remote peer holds, and their CIDs
ServedBlocks == {GoodBlock, OtherBlock}
ServedCids == {BlockCid(b) : b \in ServedBlocks}

\* a get_block call: not made, waiting, or completed with a block
NoCall == [state |-> "none", block |-> NoBlock]
Waiting == [state |-> "waiting", block |-> NoBlock]
Got(b) == [state |-> "done", block |-> b]

\* the client engine before any request
NoFetch ==
    [gets |-> [c \in ServedCids |-> NoCall], asked |-> {},
     stream |-> [state |-> "none", ids |-> {}, yielded |-> <<>>]]

\* verify_hash has not been called
NoVerify == [result |-> [some |-> FALSE, eq |-> FALSE], block |-> NoBlock, called |-> FALSE]

\* wantlist_for_peer has not been called
NoWantlist == [peer |-> NoPeer, result |-> {}]

\* MemBlockStore::new
NewStore == [blocks |-> EmptyMap, result |-> <<>>, calls |-> <<>>]

(***************************************************************************)
(* The state Bitswap::new returns, for a run with lim Message events that  *)
(* carry block sets of pl, the server enabled or not as srv says, and up   *)
(* to nq events waiting in the network output channel.                     *)
(***************************************************************************)
IdleWorker == [peer |-> NoPeer, pc |-> "idle", blocks |-> {}, cdone |-> FALSE, id |-> 0,
               sdone |-> FALSE]

InitBase(lim, srv, pl, nq) ==
    /\ established = {}
    /\ nextConn = 1
    /\ last_conn = [p \in Peers |-> 0]
    /\ connected_peers = EmptyMap
    /\ connection_state = EmptyMap
    /\ dials = EmptyMap
    /\ sinks = [i \in 1..MaxDials |-> SinkUnused]
    /\ nextDial = 1
    /\ netQ = <<>>
    /\ msgQ = <<>>
    /\ conQ = <<>>
    /\ disQ = <<>>
    /\ nextMsg = 1
    /\ msg_limit = lim
    /\ server_on \in srv
    /\ net_limit = nq
    /\ payloads = pl
    /\ mw = IdleWorker
    /\ clog = <<>>
    /\ cblocks = {}
    /\ slog = <<>>
    /\ cview = [p \in Peers |-> "none"]
    /\ sview = [p \in Peers |-> "none"]
    /\ con_count = [p \in Peers |-> 0]
    /\ codec = NoCodec
    /\ replies = <<>>
    /\ swarm_out = NoOut
    /\ nb = NoNotify
    /\ stop = NotStopped
    /\ wl = NoWantlist
    /\ vh = NoVerify
    /\ fetch = NoFetch
    /\ store = NewStore
    /\ wake = "polling"

\* the same with a network output channel that holds up to MaxNetQ events
InitWith(lim, srv, pl) == InitBase(lim, srv, pl, MaxNetQ)

Init == InitWith(MaxMsgs, BOOLEAN, NoBlocks)

\* every step but poll clears the record of the last poll's output
Step ==
    /\ replies' = <<>>
    /\ swarm_out' = NoOut
    /\ UNCHANGED <<cfg_vars, wake, api_vars, side_vars, codec>>

(***************************************************************************)
(* on_swarm_event                                                          *)
(***************************************************************************)
\* connected_peers.entry(peer_id).or_default().insert(connection_id)
InsertConnection(cp, p, c) == MapPut(cp, p, MapGetOr(cp, p, {}) \cup {c})

\* the mutant: the emptied entry stays in the map
RemoveConnection_KeepEmpty(cp, p, c) ==
    IF p \in DOMAIN cp THEN MapPut(cp, p, cp[p] \ {c}) ELSE cp

\* list.remove(&connection_id); if list.is_empty() { entry.remove(); }
RemoveConnection(cp, p, c) ==
    IF p \in DOMAIN cp
    THEN IF cp[p] \ {c} = {} THEN MapRemove(cp, p) ELSE MapPut(cp, p, cp[p] \ {c})
    ELSE cp

\* the mutant: the state of a closed connection is kept
RemoveState_Keep(cs, c) == cs

\* self.connection_state.remove(&connection_id)
RemoveState(cs, c) == MapRemove(cs, c)

\* the mutant: every closed connection counts as the last
LastConnectionClosed_Always(cp, p, remaining) == TRUE

\* remaining_established == 0 && !self.connected_peers.contains_key(&peer_id)
LastConnectionClosed(cp, p, remaining) == remaining = 0 /\ p \notin DOMAIN cp

\* the mutant: the sinks of the dials pending for any peer are each sent val
ResolveSinks_All(sk, dl, p, val) ==
    [i \in DOMAIN sk |->
        IF p \in DOMAIN dl /\ \E q \in DOMAIN dl : i \in SeqElems(dl[q]) THEN val ELSE sk[i]]

\* the sinks of the dials pending for peer p are each sent val
ResolveSinks(sk, dl, p, val) ==
    [i \in DOMAIN sk |-> IF p \in DOMAIN dl /\ i \in SeqElems(dl[p]) THEN val ELSE sk[i]]

\* the mutant: the entry of the peer stays in the map
TakeDials_Keep(dl, p) == dl

\* dials.remove(&peer_id)
TakeDials(dl, p) == MapRemove(dl, p)

ConnectionEstablished(p) ==
    /\ nextConn <= MaxConns
    /\ LET c == nextConn IN
        /\ established' = established \cup {<<p, c>>}
        /\ nextConn' = c + 1
        /\ last_conn' = [last_conn EXCEPT ![p] = c]
        /\ connected_peers' = InsertConnection(connected_peers, p, c)
        /\ connection_state' = MapPut(connection_state, c, Pending)
        /\ Step
    /\ UNCHANGED <<dial_vars, pipe_vars, nextDial, netQ, msgQ, conQ, disQ, nextMsg, con_count>>

ConnectionClosed(p, c) ==
    /\ LET remaining == Cardinality({x \in established : x[1] = p}) - 1
           cp == RemoveConnection(connected_peers, p, c)
       IN
        /\ established' = established \ {<<p, c>>}
        /\ connected_peers' = cp
        /\ connection_state' = RemoveState(connection_state, c)
        /\ disQ' = IF LastConnectionClosed(cp, p, remaining)
                   THEN TrySend(disQ, [peer |-> p, stamp |-> nextMsg])
                   ELSE disQ
        /\ con_count' = ResetGone(con_count, cp)
    /\ Step
    /\ UNCHANGED <<nextConn, last_conn, dial_vars, pipe_vars, nextDial, netQ, msgQ, conQ, nextMsg>>

DialFailure(p, e) ==
    /\ IF p = NoPeer
       THEN UNCHANGED <<dials, sinks>>
       ELSE /\ dials' = TakeDials(dials, p)
            /\ sinks' = ResolveSinks(sinks, dials, p, SinkErr(e))
    /\ Step
    /\ UNCHANGED <<conn_vars, pipe_vars, nextDial, netQ, msgQ, conQ, disQ, nextMsg, con_count>>

(***************************************************************************)
(* on_connection_handler_event                                             *)
(***************************************************************************)
\* the mutant: the state is inserted whether or not the connection has an entry
HandlerConnected_Insert(p, c, v) ==
    /\ Len(conQ) < MaxQueued
    /\ connection_state' = MapPut(connection_state, c, Responsive(v))
    /\ conQ' = TrySend(conQ, p)
    /\ con_count' = CountConnected(con_count, p)
    /\ dials' = TakeDials(dials, p)
    /\ sinks' = ResolveSinks(sinks, dials, p, SinkOk(c, v))
    /\ Step
    /\ UNCHANGED <<established, nextConn, last_conn, connected_peers, pipe_vars, nextDial, netQ, msgQ,
                   disQ, nextMsg>>

HandlerConnected(p, c, v) ==
    /\ Len(conQ) < MaxQueued
    /\ IF c \in DOMAIN connection_state
       THEN /\ connection_state' = MapPut(connection_state, c, Responsive(v))
            /\ conQ' = TrySend(conQ, p)
            /\ con_count' = CountConnected(con_count, p)
            /\ dials' = TakeDials(dials, p)
            /\ sinks' = ResolveSinks(sinks, dials, p, SinkOk(c, v))
       ELSE UNCHANGED <<connection_state, conQ, con_count, dials, sinks>>
    /\ Step
    /\ UNCHANGED <<established, nextConn, last_conn, connected_peers, pipe_vars, nextDial, netQ, msgQ,
                   disQ, nextMsg>>

\* the mutant: the pending dials are answered as after a handshake
HandlerProtocolNotSupported_Ok(p, c) ==
    /\ IF c \in DOMAIN connection_state
       THEN /\ connection_state' = MapPut(connection_state, c, Unresponsive)
            /\ dials' = TakeDials(dials, p)
            /\ sinks' = ResolveSinks(sinks, dials, p, SinkOk(c, NoProtocol))
       ELSE UNCHANGED <<connection_state, dials, sinks>>
    /\ Step
    /\ UNCHANGED <<established, nextConn, last_conn, connected_peers, pipe_vars, nextDial, netQ, msgQ,
                   conQ, disQ, nextMsg, con_count>>

HandlerProtocolNotSupported(p, c) ==
    /\ IF c \in DOMAIN connection_state
       THEN /\ connection_state' = MapPut(connection_state, c, Unresponsive)
            /\ dials' = TakeDials(dials, p)
            /\ sinks' = ResolveSinks(sinks, dials, p, SinkErr("protocol not supported"))
       ELSE UNCHANGED <<connection_state, dials, sinks>>
    /\ Step
    /\ UNCHANGED <<established, nextConn, last_conn, connected_peers, pipe_vars, nextDial, netQ, msgQ,
                   conQ, disQ, nextMsg, con_count>>

\* the mutant: every message promotes the connection
HandlerMessage_Always(p, c, v) ==
    /\ nextMsg <= msg_limit
    /\ IF c \in DOMAIN connection_state
       THEN /\ Len(conQ) < MaxQueued
            /\ connection_state' = MapPut(connection_state, c, Responsive(v))
            /\ conQ' = TrySend(conQ, p)
            /\ con_count' = CountConnected(con_count, p)
       ELSE UNCHANGED <<connection_state, conQ, con_count>>
    /\ \E b \in payloads : msgQ' = TrySend(msgQ, [peer |-> p, blocks |-> b, id |-> nextMsg])
    /\ nextMsg' = nextMsg + 1
    /\ Step
    /\ UNCHANGED <<established, nextConn, last_conn, connected_peers, dial_vars, pipe_vars, nextDial,
                   netQ, disQ>>

HandlerMessage(p, c, v) ==
    /\ nextMsg <= msg_limit
    /\ IF c \in DOMAIN connection_state /\ connection_state[c].tag # "Responsive"
       THEN /\ Len(conQ) < MaxQueued
            /\ connection_state' = MapPut(connection_state, c, Responsive(v))
            /\ conQ' = TrySend(conQ, p)
            /\ con_count' = CountConnected(con_count, p)
       ELSE UNCHANGED <<connection_state, conQ, con_count>>
    /\ \E b \in payloads : msgQ' = TrySend(msgQ, [peer |-> p, blocks |-> b, id |-> nextMsg])
    /\ nextMsg' = nextMsg + 1
    /\ Step
    /\ UNCHANGED <<established, nextConn, last_conn, connected_peers, dial_vars, pipe_vars, nextDial,
                   netQ, disQ>>

HandlerFailedToSendMessage(p, c) ==
    /\ Step
    /\ UNCHANGED <<conn_vars, dial_vars, pipe_vars, nextDial, netQ, msgQ, conQ, disQ, nextMsg,
                   con_count>>

(***************************************************************************)
(* The network handle (network.rs, shared by client and server) puts       *)
(* OutEvents on the channel that poll drains.                              *)
(***************************************************************************)
OutEv(t, p, i, c) == [conn |-> c, type |-> t, peer |-> p, id |-> i]

NetworkDial(p) ==
    /\ Len(netQ) < net_limit
    /\ nextDial <= MaxDials
    /\ netQ' = Append(netQ, OutEv("Dial", p, nextDial, 0))
    /\ sinks' = [sinks EXCEPT ![nextDial] = SinkPending]
    /\ nextDial' = nextDial + 1
    /\ Step
    /\ UNCHANGED <<conn_vars, pipe_vars, dials, msgQ, conQ, disQ, nextMsg, con_count>>

NetworkOther(t, p, c) ==
    /\ Len(netQ) < net_limit
    /\ netQ' = Append(netQ, OutEv(t, p, 0, c))
    /\ Step
    /\ UNCHANGED <<conn_vars, dial_vars, pipe_vars, nextDial, msgQ, conQ, disQ, nextMsg,
                   con_count>>

(***************************************************************************)
(* poll                                                                    *)
(***************************************************************************)
SwarmDial(p) == [conn |-> 0, type |-> "Dial", peer |-> p, handler |-> "none", waker |-> FALSE]
SwarmNotify(p, h, c, e) == [conn |-> c, type |-> e, peer |-> p, handler |-> h, waker |-> FALSE]
SwarmGenerate == [conn |-> 0, type |-> "GenerateEvent", peer |-> NoPeer, handler |-> "none",
                  waker |-> FALSE]
\* Poll::Pending; waker is TRUE when it comes from polling the empty channel
PollPending(w) == [conn |-> 0, type |-> "Pending", peer |-> NoPeer, handler |-> "none",
                   waker |-> w]

\* the first connection, in the iteration order ord of the hash map, that is in set S (0: none)
FirstIn(ord, S) ==
    IF \E i \in DOMAIN ord : ord[i] \in S
    THEN ord[CHOOSE i \in DOMAIN ord : ord[i] \in S /\ \A j \in DOMAIN ord : j < i => ord[j] \notin S]
    ELSE 0

\* the entries of connection_state whose key is one of the peer's connections
StatesOf(p) == {c \in DOMAIN connection_state : c \in connected_peers[p]}

\* .find(|(_, state)| matches!(state, ConnectionState::Responsive(_)))
FindResponsive(ord, p) == FirstIn(ord, {c \in StatesOf(p) : connection_state[c].tag = "Responsive"})

\* the mutant: only a Pending connection is found, an Unresponsive one is passed over
FindOther_PendingOnly(ord, p) ==
    FirstIn(ord, {c \in StatesOf(p) : connection_state[c].tag = "Pending"})

\* .find(|(_, state)| matches!(state, ConnectionState::Pending | ConnectionState::Unresponsive))
FindOther(ord, p) ==
    FirstIn(ord, {c \in StatesOf(p) : connection_state[c].tag \in {"Pending", "Unresponsive"}})

\* the mutant: a Responsive connection is not preferred
DialAnswer_NoPreference(ord, p) ==
    IF FirstIn(ord, StatesOf(p)) # 0
    THEN SinkOk(FirstIn(ord, StatesOf(p)),
                IF connection_state[FirstIn(ord, StatesOf(p))].tag = "Responsive"
                THEN connection_state[FirstIn(ord, StatesOf(p))].protocol ELSE NoProtocol)
    ELSE SinkDropped

\* what the sink of a Dial for a peer with connections is sent
DialAnswer(ord, p) ==
    IF FindResponsive(ord, p) # 0
    THEN SinkOk(FindResponsive(ord, p), connection_state[FindResponsive(ord, p)].protocol)
    ELSE IF FindOther(ord, p) # 0
         THEN SinkOk(FindOther(ord, p), NoProtocol)
         ELSE SinkDropped

\* the mutant: UnprotectPeer is answered and passed on without a look at connected_peers
RECURSIVE PollLoop_Unchecked(_, _, _, _, _, _)
PollLoop_Unchecked(q, n, dl, sk, rp, ord) ==
    IF n = 0 THEN [dials |-> dl, sinks |-> sk, replies |-> rp, q |-> q, out |-> PollPending(FALSE)]
    ELSE IF q = <<>> THEN [dials |-> dl, sinks |-> sk, replies |-> rp, q |-> q,
                           out |-> PollPending(TRUE)]
    ELSE LET ev == Head(q)
             rest == Tail(q)
             connected == ev.peer \in DOMAIN connected_peers
             Result(q2, dl2, sk2, rp2, out) ==
                 [dials |-> dl2, sinks |-> sk2, replies |-> rp2, q |-> q2, out |-> out]
         IN CASE ev.type = "Dial" ->
                    IF ~connected
                    THEN Result(rest, MapPut(dl, ev.peer, Append(MapGetOr(dl, ev.peer, <<>>), ev.id)),
                                sk, rp, SwarmDial(ev.peer))
                    ELSE PollLoop_Unchecked(rest, n - 1, dl,
                                            [sk EXCEPT ![ev.id] = DialAnswer(ord, ev.peer)], rp, ord)
              [] ev.type = "GenerateEvent" ->
                    Result(rest, dl, sk, rp, SwarmGenerate)
              [] ev.type = "SendMessage" ->
                    Result(rest, dl, sk, rp, SwarmNotify(ev.peer, "One", ev.conn, "Message"))
              [] ev.type = "ProtectPeer" ->
                    IF connected
                    THEN Result(rest, dl, sk, rp, SwarmNotify(ev.peer, "Any", 0, "Protect"))
                    ELSE PollLoop_Unchecked(rest, n - 1, dl, sk, rp, ord)
              [] ev.type = "UnprotectPeer" ->
                    Result(rest, dl, sk, Append(rp, TRUE), SwarmNotify(ev.peer, "Any", 0, "Unprotect"))

PollResult(q, dl, sk, rp, out) == [dials |-> dl, sinks |-> sk, replies |-> rp, q |-> q,
                                   out |-> out]

\* the loop `for _ in 0..50`, n iterations left
RECURSIVE PollLoop(_, _, _, _, _, _)
PollLoop(q, n, dl, sk, rp, ord) ==
    IF n = 0 THEN PollResult(q, dl, sk, rp, PollPending(FALSE))
    ELSE IF q = <<>> THEN PollResult(q, dl, sk, rp, PollPending(TRUE))
    ELSE LET ev == Head(q)
             rest == Tail(q)
             connected == ev.peer \in DOMAIN connected_peers
         IN CASE ev.type = "Dial" ->
                    IF ~connected
                    THEN PollResult(rest, MapPut(dl, ev.peer, Append(MapGetOr(dl, ev.peer, <<>>), ev.id)),
                                    sk, rp, SwarmDial(ev.peer))
                    ELSE PollLoop(rest, n - 1, dl, [sk EXCEPT ![ev.id] = DialAnswer(ord, ev.peer)], rp, ord)
              [] ev.type = "GenerateEvent" ->
                    PollResult(rest, dl, sk, rp, SwarmGenerate)
              [] ev.type = "SendMessage" ->
                    PollResult(rest, dl, sk, rp, SwarmNotify(ev.peer, "One", ev.conn, "Message"))
              [] ev.type = "ProtectPeer" ->
                    IF connected
                    THEN PollResult(rest, dl, sk, rp, SwarmNotify(ev.peer, "Any", 0, "Protect"))
                    ELSE PollLoop(rest, n - 1, dl, sk, rp, ord)
              [] ev.type = "UnprotectPeer" ->
                    IF connected
                    THEN PollResult(rest, dl, sk, Append(rp, TRUE), SwarmNotify(ev.peer, "Any", 0, "Unprotect"))
                    ELSE PollLoop(rest, n - 1, dl, sk, Append(rp, FALSE), ord)

\* the mutant: the loop goes on until an event yields an action or the channel is empty
Poll_Unlimited(ord) ==
    /\ LET r == PollLoop(netQ, Len(netQ) + 1, dials, sinks, <<>>, ord) IN
        /\ netQ' = r.q
        /\ dials' = r.dials
        /\ sinks' = r.sinks
        /\ replies' = r.replies
        /\ swarm_out' = r.out
    /\ UNCHANGED <<conn_vars, pipe_vars, cfg_vars, wake, api_vars, side_vars, nextDial, msgQ, conQ, disQ, nextMsg,
                   con_count, codec>>

Poll(ord) ==
    /\ LET r == PollLoop(netQ, PollLimit, dials, sinks, <<>>, ord) IN
        /\ netQ' = r.q
        /\ dials' = r.dials
        /\ sinks' = r.sinks
        /\ replies' = r.replies
        /\ swarm_out' = r.out
    /\ UNCHANGED <<conn_vars, pipe_vars, cfg_vars, wake, api_vars, side_vars, nextDial, msgQ, conQ, disQ, nextMsg,
                   con_count, codec>>


(***************************************************************************)
(* The three worker tasks spawned by Bitswap::new.  Each takes one item    *)
(* from its channel and awaits the join of the client's and the server's   *)
(* handling of it (the client's alone when the server is disabled) before  *)
(* it takes the next.                                                      *)
(***************************************************************************)
Busy(pc, m) ==
    [peer |-> m.peer, pc |-> pc, blocks |-> m.blocks, cdone |-> FALSE, id |-> m.id,
     sdone |-> ~server_on]

\* the worker after the client's (who = "c") or the server's (who = "s") future completed
Finish(w, who) ==
    LET w2 == IF who = "c" THEN [w EXCEPT !.cdone = TRUE] ELSE [w EXCEPT !.sdone = TRUE]
    IN IF w2.cdone /\ w2.sdone THEN IdleWorker ELSE w2

\* what an observer has been told of a peer, after peer_connected
SawConnected(view, p) == [view EXCEPT ![p] = "connected"]

\* what an observer has been told of a peer, after peer_disconnected: "disconnected"
\* when a peer_connected came before, "only_disconnected" when none ever did
SawDisconnected(view, p) ==
    [view EXCEPT ![p] = IF @ \in {"connected", "disconnected"} THEN "disconnected"
                        ELSE "only_disconnected"]

WorkerFrame ==
    /\ Step
    /\ UNCHANGED <<conn_vars, dial_vars, nextDial, netQ, nextMsg, con_count>>

\* the mutant: the newest message is taken first
MsgRecv_Newest ==
    /\ mw.pc = "idle"
    /\ msgQ # <<>>
    /\ mw' = Busy("verify", msgQ[Len(msgQ)])
    /\ msgQ' = SubSeq(msgQ, 1, Len(msgQ) - 1)
    /\ WorkerFrame
    /\ UNCHANGED <<conQ, disQ, clog, cblocks, slog, cview, sview>>

\* the mutant: the loop ends after its first message
MsgRecv_Once ==
    /\ mw.pc = "idle"
    /\ msgQ # <<>>
    /\ clog = <<>>
    /\ mw' = Busy("verify", Head(msgQ))
    /\ msgQ' = Tail(msgQ)
    /\ WorkerFrame
    /\ UNCHANGED <<conQ, disQ, clog, cblocks, slog, cview, sview>>

\* receiver_msg.next().await
MsgRecv ==
    /\ mw.pc = "idle"
    /\ msgQ # <<>>
    /\ mw' = Busy("verify", Head(msgQ))
    /\ msgQ' = Tail(msgQ)
    /\ WorkerFrame
    /\ UNCHANGED <<conQ, disQ, clog, cblocks, slog, cview, sview>>

\* the mutant: the message goes on as it was received
MsgVerify_Skip ==
    /\ mw.pc = "verify"
    /\ mw' = [mw EXCEPT !.pc = "deliver"]
    /\ WorkerFrame
    /\ UNCHANGED <<msgQ, conQ, disQ, clog, cblocks, slog, cview, sview>>

\* spawn_blocking(move || { message.verify_blocks(); message }).await
MsgVerify ==
    /\ mw.pc = "verify"
    /\ mw' = [mw EXCEPT !.pc = "deliver", !.blocks = VerifyBlocks(@)]
    /\ WorkerFrame
    /\ UNCHANGED <<msgQ, conQ, disQ, clog, cblocks, slog, cview, sview>>

\* client.receive_message(&peer, &message)
MsgClientReceive ==
    /\ mw.pc = "deliver"
    /\ ~mw.cdone
    /\ clog' = Append(clog, mw.id)
    /\ cblocks' = cblocks \cup mw.blocks
    /\ mw' = Finish(mw, "c")
    /\ WorkerFrame
    /\ UNCHANGED <<msgQ, conQ, disQ, slog, cview, sview>>

\* server.receive_message(&peer, &message)
MsgServerReceive ==
    /\ mw.pc = "deliver"
    /\ ~mw.sdone
    /\ slog' = Append(slog, mw.id)
    /\ mw' = Finish(mw, "s")
    /\ WorkerFrame
    /\ UNCHANGED <<msgQ, conQ, disQ, clog, cblocks, cview, sview>>

\* receiver_con.next().await, then client.peer_connected(&peer) joined with
\* server.peer_connected(&peer)
ConWorker ==
    /\ conQ # <<>>
    /\ conQ' = Tail(conQ)
    /\ cview' = SawConnected(cview, Head(conQ))
    /\ sview' = IF server_on THEN SawConnected(sview, Head(conQ)) ELSE sview
    /\ WorkerFrame
    /\ UNCHANGED <<msgQ, disQ, mw, clog, cblocks, slog>>

\* receiver_dis.next().await, then client.peer_disconnected(&peer) joined with
\* server.peer_disconnected(&peer)
DisWorker ==
    /\ disQ # <<>>
    /\ disQ' = Tail(disQ)
    /\ cview' = SawDisconnected(cview, Head(disQ).peer)
    /\ sview' = IF server_on THEN SawDisconnected(sview, Head(disQ).peer) ELSE sview
    /\ WorkerFrame
    /\ UNCHANGED <<msgQ, conQ, mw, clog, cblocks, slog>>

(***************************************************************************)
(* notify_new_blocks(blocks): the client is notified and awaited; its      *)
(* error returns at once (the ? operator); then the server, when there is  *)
(* one, is notified and awaited, and its error returns.                    *)
(***************************************************************************)
\* everything but the calls of the public methods
behaviour_vars == <<conn_vars, dial_vars, pipe_vars, cfg_vars, wake, side_vars, nextDial, netQ, msgQ, conQ,
                    disQ, nextMsg, con_count, codec, replies, swarm_out>>

Outcomes == {"Ok", "Err"}

\* the caller calls notify_new_blocks(B)
NotifyNewBlocks(B) ==
    /\ nb.pc = "idle"
    /\ nb.calls < MaxCalls
    /\ nb' = [nb EXCEPT !.pc = "client", !.blocks = B, !.client = "none", !.server = "none",
                         !.result = "none", !.calls = @ + 1]
    /\ UNCHANGED <<behaviour_vars, stop, wl, vh>>

\* the mutant: the client's error is not returned
ClientNotified_NoReturn(r) ==
    /\ nb.pc = "client"
    /\ nb' = [nb EXCEPT !.client = r,
                         !.cdone = IF r = "Ok" THEN @ \cup nb.blocks ELSE @,
                         !.pc = IF server_on THEN "server" ELSE "return",
                         !.result = IF server_on THEN "none" ELSE "Ok"]
    /\ UNCHANGED <<behaviour_vars, stop, wl, vh>>

\* self.client.notify_new_blocks(blocks).await? completes with r
ClientNotified(r) ==
    /\ nb.pc = "client"
    /\ nb' = [nb EXCEPT !.client = r,
                         !.cdone = IF r = "Ok" THEN @ \cup nb.blocks ELSE @,
                         !.pc = IF r = "Ok" /\ server_on THEN "server" ELSE "return",
                         !.result = IF r = "Err" THEN "Err"
                                    ELSE IF server_on THEN "none" ELSE "Ok"]
    /\ UNCHANGED <<behaviour_vars, stop, wl, vh>>

\* the server, while or after it handles the notification, sends block b of it to a peer
ServerSends(b) ==
    /\ \/ nb.pc = "server"
       \/ nb.pc = "return" /\ nb.server # "none"
    /\ b \in nb.blocks
    /\ nb' = [nb EXCEPT !.sent = @ \cup {b}]
    /\ UNCHANGED <<behaviour_vars, stop, wl, vh>>

\* server.notify_new_blocks(blocks).await? completes with r
ServerNotified(r) ==
    /\ nb.pc = "server"
    /\ nb' = [nb EXCEPT !.server = r, !.pc = "return", !.result = r]
    /\ UNCHANGED <<behaviour_vars, stop, wl, vh>>

\* the call returns nb.result to the caller
NotifyReturns ==
    /\ nb.pc = "return"
    /\ nb' = [nb EXCEPT !.pc = "idle"]
    /\ UNCHANGED <<behaviour_vars, stop, wl, vh>>

(***************************************************************************)
(* stop(self): the network handle is stopped, then client and server are   *)
(* stopped and awaited.  The behaviour is consumed by the call: what is    *)
(* left of it when the call returns, the three senders and the join        *)
(* handles of the worker tasks among it, is dropped.  A dropped join       *)
(* handle detaches its task.  A worker task ends when its receiver yields  *)
(* None: every sender is dropped and the channel is empty.                 *)
(***************************************************************************)
Workers == {"msg", "con", "dis"}

\* the caller calls stop(): self.network.stop(), then the stop of client and server is awaited
StopCall ==
    /\ stop.pc = "running"
    /\ stop' = [stop EXCEPT !.pc = "stopping"]
    /\ UNCHANGED <<behaviour_vars, nb, wl, vh>>

\* try_join(self.client.stop(), server.stop()).await? (client.stop().await? without server)
\* completes with r and stop returns
StopReturns(r) ==
    /\ stop.pc = "stopping"
    /\ stop' = [stop EXCEPT !.pc = "returned", !.result = r, !.senders = FALSE]
    /\ UNCHANGED <<behaviour_vars, nb, wl, vh>>

\* the worker's receiver yields None and its loop ends
WorkerEnds(w) ==
    /\ ~stop.senders
    /\ w \notin stop.ended
    /\ w = "msg" => msgQ = <<>> /\ mw.pc = "idle"
    /\ w = "con" => conQ = <<>>
    /\ w = "dis" => disQ = <<>>
    /\ stop' = [stop EXCEPT !.ended = @ \cup {w}]
    /\ UNCHANGED <<behaviour_vars, nb, wl, vh>>

(***************************************************************************)
(* server() and wantlist_for_peer(peer).  The wantlist of the local peer   *)
(* is the client's; that of another peer is what the server's ledger has   *)
(* for it, and empty without a server.                                     *)
(***************************************************************************)
\* self.network.self_id()
Local == "local"

\* pub fn server(&self) -> Option<&Server<S>>
ServerOf(srv) == IF srv THEN <<"server">> ELSE <<>>

\* what the server's ledger may hold for a peer
LedgerWants == {{}, {BlockCid(GoodBlock)}}

\* the mutant: the wantlist of every peer is taken from the server's ledger
WantlistForPeer_Ledger(peer, own, ledger) ==
    /\ wl' = [peer |-> peer, result |-> IF peer = Local THEN own ELSE ledger]
    /\ UNCHANGED <<behaviour_vars, nb, stop, vh>>

\* wantlist_for_peer(peer), when the client's wantlist is own and the ledger's entry for
\* the peer is ledger
WantlistForPeer(peer, own, ledger) ==
    /\ wl' = [peer |-> peer,
               result |-> IF peer = Local THEN own
                          ELSE IF server_on THEN ledger ELSE {}]
    /\ UNCHANGED <<behaviour_vars, nb, stop, vh>>

(***************************************************************************)
(* A call of verify_hash(cid, bytes); b.code and b.digest are the CID's    *)
(* multihash and b.data the bytes.                                         *)
(***************************************************************************)
CallVerifyHash(b) ==
    /\ vh' = [result |-> VerifyHash(b), block |-> b, called |-> TRUE]
    /\ UNCHANGED <<behaviour_vars, nb, stop, wl>>

(***************************************************************************)
(* compat/message.rs: CompatMessage and its codec.                         *)
(*                                                                         *)
(* A CID is its version, codec and multihash (hash code and digest).  Its  *)
(* binary form is the multihash alone for version 0, and version, codec    *)
(* and multihash for version 1.                                            *)
(***************************************************************************)
Cid(version, multicodec, code, digest) ==
    [code |-> code, digest |-> digest, codec |-> multicodec, version |-> version]

CidA == Cid("v1", "raw", "sha2-256", Digest("sha2-256", "d1"))
CidB == Cid("v1", "raw", "sha2-256", Digest("sha2-256", "d2"))
CidV0 == Cid("v0", "dag-pb", "sha2-256", Digest("sha2-256", "d1"))
CidEmpty == Cid("v1", "raw", "sha2-256", Digest("sha2-256", ""))
Cids == {CidA, CidB, CidV0, CidEmpty}

\* a result: Ok(v) or Err
Ok(v) == [val |-> v, ok |-> TRUE]
Err == [val |-> <<>>, ok |-> FALSE]

\* cid.to_bytes()
CidToBytes(cid) ==
    IF cid.version = "v0"
    THEN <<cid.code, cid.digest>>
    ELSE <<cid.version, cid.codec, cid.code, cid.digest>>

\* bytes that are no CID
JunkBytes == <<"junk">>

\* Cid::try_from(bytes)
CidFromBytes(bytes) ==
    IF Len(bytes) = 2 /\ bytes[1] = "sha2-256"
    THEN Ok(Cid("v0", "dag-pb", bytes[1], bytes[2]))
    ELSE IF Len(bytes) = 4 /\ bytes[1] = "v1"
         THEN Ok(Cid(bytes[1], bytes[2], bytes[3], bytes[4]))
         ELSE Err

(***************************************************************************)
(* compat/prefix.rs: the prefix of a CID is its version, codec, hash code  *)
(* and digest length; with the data of a block it gives the CID back by    *)
(* hashing the data.                                                       *)
(***************************************************************************)
DigestLen == "len32"

\* Prefix::from(cid).to_bytes()
PrefixBytes(cid) == <<cid.version, cid.codec, cid.code, DigestLen>>

\* Prefix::new(bytes)
PrefixNew(bytes) ==
    IF Len(bytes) = 4 /\ bytes[1] \in {"v0", "v1"}
    THEN Ok([codec |-> bytes[2], version |-> bytes[1], mh_type |-> bytes[3], mh_len |-> bytes[4]])
    ELSE Err

\* prefix.to_cid(data)
PrefixToCid(prefix, data) ==
    IF prefix.mh_type \notin KnownCodes THEN Err
    ELSE IF prefix.version = "v0" /\ (prefix.codec # "dag-pb" \/ prefix.mh_type # "sha2-256") THEN Err
    ELSE Ok(Cid(prefix.version, prefix.codec, prefix.mh_type, Digest(prefix.mh_type, data)))

(***************************************************************************)
(* enum CompatMessage { Request(BitswapRequest { ty, cid }),               *)
(*                      Response(Cid, BitswapResponse) }                   *)
(* with BitswapResponse::Have(bool) and BitswapResponse::Block(bytes).     *)
(* The fields a variant does not have are "-".                             *)
(***************************************************************************)
Request(ty, cid) == [data |-> "-", cid |-> cid, ty |-> ty, kind |-> "Request", have |-> "-"]
ResponseHave(cid, have) ==
    [data |-> "-", cid |-> cid, ty |-> "-", kind |-> "Have",
     have |-> IF have THEN "true" ELSE "false"]
ResponseBlock(cid, data) == [data |-> data, cid |-> cid, ty |-> "-", kind |-> "Block",
                             have |-> "-"]

RequestTypes == {"Have", "Block"}

CompatMessages ==
    {Request(ty, cid) : ty \in RequestTypes, cid \in Cids}
        \cup {ResponseHave(cid, have) : cid \in Cids, have \in BOOLEAN}
        \cup {ResponseBlock(cid, data) : cid \in Cids, data \in BlockDatas}

(***************************************************************************)
(* bitswap_pb::Message and its parts (pb.rs, generated from the protobuf   *)
(* schema).                                                                *)
(***************************************************************************)
Entry(block, wantType, sendDontHave, cancel, priority) ==
    [block |-> block, wantType |-> wantType, sendDontHave |-> sendDontHave, cancel |-> cancel,
     priority |-> priority]
Payload(prefix, data) == [data |-> data, prefix |-> prefix]
BlockPresence(cid, type) == [type |-> type, cid |-> cid]
\* msg.wantlist is None when wantlist is <<>>, and Some(w) when it is <<w>>
PbMessage(wantlist, payload, presences) ==
    [wantlist |-> wantlist, payload |-> payload, blockPresences |-> presences]
Wantlist(entries) == [entries |-> entries, full |-> FALSE]

\* the mutant: every want is written as a want for a block
WantTypeOf_Block(ty) == "Block"

\* match ty { RequestType::Have => WantType::Have, RequestType::Block => WantType::Block }
WantTypeOf(ty) == IF ty = "Have" THEN "Have" ELSE "Block"

\* the mutant: send_dont_have is left at its default
RequestEntry_NoDontHave(ty, cid) == Entry(CidToBytes(cid), WantTypeOf(ty), FALSE, FALSE, 1)

\* the wantlist entry of an outgoing Request
RequestEntry(ty, cid) == Entry(CidToBytes(cid), WantTypeOf(ty), TRUE, FALSE, 1)

\* CompatMessage::to_message
ToMessage(m) ==
    CASE m.kind = "Request" ->
            PbMessage(<<Wantlist(<<RequestEntry(m.ty, m.cid)>>)>>, <<>>, <<>>)
      [] m.kind = "Have" ->
            PbMessage(<<>>, <<>>,
                      <<BlockPresence(CidToBytes(m.cid), IF m.have = "true" THEN "Have" ELSE "DontHave")>>)
      [] m.kind = "Block" ->
            PbMessage(<<>>, <<Payload(PrefixBytes(m.cid), m.data)>>, <<>>)

(***************************************************************************)
(* The bytes of a protobuf message (proto3): a field that has its default  *)
(* value is not written, a field that is not read has its default value,   *)
(* the last occurrence of a scalar field wins, a repeated field keeps its  *)
(* elements in order.  A written scalar field is <<v>>, an absent one <<>>.*)
(***************************************************************************)
Opt(v, default) == IF v = default THEN <<>> ELSE <<v>>
Get(field, default) == IF Len(field) = 0 THEN default ELSE field[Len(field)]

WriteEntry(e) ==
    [block |-> Opt(e.block, <<>>), wantType |-> Opt(e.wantType, "Block"),
     sendDontHave |-> Opt(e.sendDontHave, FALSE), cancel |-> Opt(e.cancel, FALSE),
     priority |-> Opt(e.priority, 0)]
ReadEntry(w) ==
    Entry(Get(w.block, <<>>), Get(w.wantType, "Block"), Get(w.sendDontHave, FALSE),
          Get(w.cancel, FALSE), Get(w.priority, 0))

WritePayload(p) == [data |-> Opt(p.data, ""), prefix |-> Opt(p.prefix, <<>>)]
ReadPayload(w) == Payload(Get(w.prefix, <<>>), Get(w.data, ""))

WritePresence(b) == [type |-> Opt(b.type, "Have"), cid |-> Opt(b.cid, <<>>)]
ReadPresence(w) == BlockPresence(Get(w.cid, <<>>), Get(w.type, "Have"))

WriteWantlist(w) ==
    [entries |-> [i \in 1..Len(w.entries) |-> WriteEntry(w.entries[i])], full |-> Opt(w.full, FALSE)]
ReadWantlist(w) ==
    [entries |-> [i \in 1..Len(w.entries) |-> ReadEntry(w.entries[i])], full |-> Get(w.full, FALSE)]

\* msg.write_message(&mut writer)
WriteMessage(msg) ==
    [wantlist |-> [i \in 1..Len(msg.wantlist) |-> WriteWantlist(msg.wantlist[i])],
     payload |-> [i \in 1..Len(msg.payload) |-> WritePayload(msg.payload[i])],
     blockPresences |-> [i \in 1..Len(msg.blockPresences) |-> WritePresence(msg.blockPresences[i])]]

\* bitswap_pb::Message::from_reader(&mut reader, bytes)
ReadMessage(bytes) ==
    PbMessage(IF Len(bytes.wantlist) = 0 THEN <<>>
              ELSE <<ReadWantlist(bytes.wantlist[Len(bytes.wantlist)])>>,
              [i \in 1..Len(bytes.payload) |-> ReadPayload(bytes.payload[i])],
              [i \in 1..Len(bytes.blockPresences) |-> ReadPresence(bytes.blockPresences[i])])

\* CompatMessage::to_bytes
ToBytes(m) == WriteMessage(ToMessage(m))

\* match entry.wantType { WantType::Have => RequestType::Have, WantType::Block => RequestType::Block }
RequestTypeOf(wantType) == IF wantType = "Have" THEN "Have" ELSE "Block"

\* the mutant: decoding of the wantlist ends at an entry without send_dont_have
RECURSIVE FromEntries_StopAtSkip(_, _)
FromEntries_StopAtSkip(es, parts) ==
    IF Len(es) = 0 THEN Ok(parts)
    ELSE IF ~Head(es).sendDontHave THEN Ok(parts)
    ELSE IF ~CidFromBytes(Head(es).block).ok THEN Err
    ELSE FromEntries_StopAtSkip(Tail(es),
             Append(parts, Request(RequestTypeOf(Head(es).wantType), CidFromBytes(Head(es).block).val)))

\* for entry in msg.wantlist.unwrap_or_default().entries { .. }
RECURSIVE FromEntries(_, _)
FromEntries(es, parts) ==
    IF Len(es) = 0 THEN Ok(parts)
    ELSE IF ~Head(es).sendDontHave THEN FromEntries(Tail(es), parts)
    ELSE IF ~CidFromBytes(Head(es).block).ok THEN Err
    ELSE FromEntries(Tail(es),
             Append(parts, Request(RequestTypeOf(Head(es).wantType), CidFromBytes(Head(es).block).val)))

\* for payload in msg.payload { .. }
RECURSIVE FromPayloads(_, _)
FromPayloads(ps, parts) ==
    IF Len(ps) = 0 THEN Ok(parts)
    ELSE IF ~PrefixNew(Head(ps).prefix).ok THEN Err
    ELSE IF ~PrefixToCid(PrefixNew(Head(ps).prefix).val, Head(ps).data).ok THEN Err
    ELSE FromPayloads(Tail(ps),
             Append(parts, ResponseBlock(PrefixToCid(PrefixNew(Head(ps).prefix).val, Head(ps).data).val,
                                         Head(ps).data)))

\* the mutant: a presence whose CID does not parse is left out
RECURSIVE FromPresences_SkipBad(_, _)
FromPresences_SkipBad(bs, parts) ==
    IF Len(bs) = 0 THEN Ok(parts)
    ELSE IF ~CidFromBytes(Head(bs).cid).ok THEN FromPresences_SkipBad(Tail(bs), parts)
    ELSE FromPresences_SkipBad(Tail(bs),
             Append(parts, ResponseHave(CidFromBytes(Head(bs).cid).val, Head(bs).type = "Have")))

\* for presence in msg.blockPresences { .. }
RECURSIVE FromPresences(_, _)
FromPresences(bs, parts) ==
    IF Len(bs) = 0 THEN Ok(parts)
    ELSE IF ~CidFromBytes(Head(bs).cid).ok THEN Err
    ELSE FromPresences(Tail(bs),
             Append(parts, ResponseHave(CidFromBytes(Head(bs).cid).val, Head(bs).type = "Have")))

\* CompatMessage::from_message
FromMessage(msg) ==
    LET entries == IF Len(msg.wantlist) = 0 THEN <<>> ELSE msg.wantlist[1].entries
        r1 == FromEntries(entries, <<>>)
        r2 == IF r1.ok THEN FromPayloads(msg.payload, r1.val) ELSE Err
        r3 == IF r2.ok THEN FromPresences(msg.blockPresences, r2.val) ELSE Err
    IN r3

\* CompatMessage::from_bytes
FromBytes(bytes) == FromMessage(ReadMessage(bytes))

\* the first use of the codec in a run: a message is encoded and the bytes are decoded
RoundTrip(m) ==
    /\ codec.op = "none"
    /\ codec' = [op |-> "round_trip", input |-> m, msg |-> ToMessage(m), bytes |-> ToBytes(m),
                 output |-> FromBytes(ToBytes(m))]
    /\ UNCHANGED <<conn_vars, dial_vars, pipe_vars, cfg_vars, wake, api_vars, side_vars, nextDial, netQ, msgQ, conQ,
                   disQ, nextMsg, con_count, replies, swarm_out>>

\* the first use of the codec in a run: a message read from the wire is decoded
Decode(msg) ==
    /\ codec.op = "none"
    /\ codec' = [op |-> "from_message", input |-> msg, msg |-> msg, bytes |-> WriteMessage(msg),
                 output |-> FromMessage(msg)]
    /\ UNCHANGED <<conn_vars, dial_vars, pipe_vars, cfg_vars, wake, api_vars, side_vars, nextDial, netQ, msgQ, conQ,
                   disQ, nextMsg, con_count, replies, swarm_out>>

(***************************************************************************)
(* struct CompatMessageCodec { length_codec: UviBytes }: the length codec  *)
(* carries the largest frame it accepts (max_len).  The length of a frame  *)
(* is counted in parts: wantlist entries, payloads and block presences.    *)
(***************************************************************************)
\* length_codec.max_len(), scaled down
MaxMessageSize == 2

RECURSIVE SumEntries(_)
SumEntries(ws) == IF Len(ws) = 0 THEN 0 ELSE Len(Head(ws).entries) + SumEntries(Tail(ws))

\* src.len()
FrameLen(bytes) == SumEntries(bytes.wantlist) + Len(bytes.payload) + Len(bytes.blockPresences)

\* the first use of the codec in a run: Decoder::decode on a buffer that holds one frame
CodecDecode(src) ==
    /\ codec.op = "none"
    /\ codec' = [op |-> "decode", input |-> src, msg |-> ReadMessage(src), bytes |-> src,
                 output |-> FromBytes(src)]
    /\ UNCHANGED <<conn_vars, dial_vars, pipe_vars, cfg_vars, wake, api_vars, side_vars, nextDial, netQ, msgQ, conQ,
                   disQ, nextMsg, con_count, replies, swarm_out>>

(***************************************************************************)
(* The client engine (client/) and a remote peer that holds ServedBlocks.  *)
(* A request is live until its block is delivered; requests for one CID    *)
(* share one want on the wire.  The client sends a want-block for a wanted *)
(* CID to a peer it has been told is connected; the peer's server answers  *)
(* a want for a block it holds with a message that carries the block; the  *)
(* message reaches the client through on_connection_handler_event and the  *)
(* message worker.  A block the client received completes the get_block    *)
(* calls that wait for it and is yielded once by a stream that asked for   *)
(* it; the stream completes when all its blocks have been yielded.         *)
(***************************************************************************)
FetchFrame ==
    /\ replies' = <<>>
    /\ swarm_out' = NoOut
    /\ UNCHANGED <<conn_vars, dial_vars, pipe_vars, cfg_vars, wake, api_vars, codec, nextDial, netQ, msgQ,
                   conQ, disQ, nextMsg, con_count>>

\* the CIDs of the blocks a stream has yielded
YieldedCids(st) == {BlockCid(st.yielded[i]) : i \in 1..Len(st.yielded)}

\* the wantlist: the CIDs of live requests
Wanted ==
    {c \in ServedCids : fetch.gets[c].state = "waiting"}
        \cup (IF fetch.stream.state = "open" THEN fetch.stream.ids \ YieldedCids(fetch.stream) ELSE {})

\* client.get_block(cid) is called
GetBlock(c) ==
    /\ fetch.gets[c].state = "none"
    /\ c \notin fetch.asked
    /\ fetch' = [fetch EXCEPT !.gets[c] = Waiting]
    /\ UNCHANGED store
    /\ FetchFrame

\* session.get_blocks(ids) is called
GetBlocks(ids) ==
    /\ fetch.stream.state = "none"
    /\ ids \cap fetch.asked = {}
    /\ fetch' = [fetch EXCEPT !.stream = [state |-> "open", ids |-> ids, yielded |-> <<>>]]
    /\ UNCHANGED store
    /\ FetchFrame

\* the want-block for c, sent by the client to peer p, reaches p
PeerReceivesWant(p, c) ==
    /\ c \in Wanted \ fetch.asked
    /\ cview[p] = "connected"
    /\ fetch' = [fetch EXCEPT !.asked = @ \cup {c}]
    /\ UNCHANGED store
    /\ FetchFrame

\* the blocks that are on their way from the handler to the client, or have reached it
Arriving == UNION {m.blocks : m \in SeqElems(msgQ)} \cup mw.blocks \cup cblocks

\* the peer's server answers the want for block b: its message arrives on connection c
PeerSendsBlock(p, c, v, b) ==
    /\ BlockCid(b) \in fetch.asked
    /\ b \notin Arriving
    /\ HandlerMessage(p, c, v)
    /\ msgQ'[Len(msgQ')].blocks = {b}

\* the get_block call for the CID of b completes with the block received
DeliverGet(b) ==
    /\ b \in cblocks
    /\ fetch.gets[BlockCid(b)].state = "waiting"
    /\ fetch' = [fetch EXCEPT !.gets[BlockCid(b)] = Got(b)]
    /\ UNCHANGED store
    /\ FetchFrame

\* the stream yields the block received
StreamYield(b) ==
    /\ b \in cblocks
    /\ fetch.stream.state = "open"
    /\ BlockCid(b) \in fetch.stream.ids \ YieldedCids(fetch.stream)
    /\ fetch' = [fetch EXCEPT !.stream.yielded = Append(@, b)]
    /\ UNCHANGED store
    /\ FetchFrame

\* the stream ends
StreamCompletes ==
    /\ fetch.stream.state = "open"
    /\ YieldedCids(fetch.stream) = fetch.stream.ids
    /\ fetch' = [fetch EXCEPT !.stream.state = "complete"]
    /\ UNCHANGED store
    /\ FetchFrame

(***************************************************************************)
(* repo/mem.rs: MemBlockStore, a HashMap<Cid, Block> behind a mutex.       *)
(* Every method holds the lock for its one operation on the map, so the    *)
(* methods are atomic.  store.calls is the sequence of calls made, and     *)
(* store.result what the last call returned: Ok(cid) for put, Ok(bool) for *)
(* contains, Ok(Option<Block>) for get and Ok(()) for remove.              *)
(***************************************************************************)
\* calls on the store during one run
MaxOps == 3

\* the blocks put: two have the same CID and different data (the store does not verify)
StoreBlocks == {GoodBlock, OtherBlock, BadBlock}
StoreCids == {BlockCid(b) : b \in StoreBlocks}
NoCid == <<"none", <<"none", "none">>>>

Call(op, c, b) == [op |-> op, block |-> b, cid |-> c]
Returned(c, flag, b) == [block |-> b, cid |-> c, flag |-> flag]

StoreFrame ==
    UNCHANGED <<conn_vars, dial_vars, pipe_vars, cfg_vars, wake, api_vars, codec, nextDial, netQ, msgQ, conQ,
                disQ, nextMsg, con_count, replies, swarm_out, fetch>>

\* async fn contains(&self, cid)
StoreContains(c) ==
    /\ Len(store.calls) < MaxOps
    /\ store' = [store EXCEPT !.calls = Append(@, Call("contains", c, NoBlock)),
                               !.result = <<Returned(NoCid, c \in DOMAIN store.blocks, NoBlock)>>]
    /\ StoreFrame

\* async fn get(&self, cid)
StoreGet(c) ==
    /\ Len(store.calls) < MaxOps
    /\ store' = [store EXCEPT !.calls = Append(@, Call("get", c, NoBlock)),
                               !.result = <<Returned(NoCid, c \in DOMAIN store.blocks,
                                                     MapGetOr(store.blocks, c, NoBlock))>>]
    /\ StoreFrame

\* the mutant: a block is stored only when its CID is not yet a key
StorePut_KeepExisting(b) ==
    /\ Len(store.calls) < MaxOps
    /\ store' = [store EXCEPT !.blocks = IF BlockCid(b) \in DOMAIN @ THEN @ ELSE MapPut(@, BlockCid(b), b),
                               !.calls = Append(@, Call("put", BlockCid(b), b)),
                               !.result = <<Returned(BlockCid(b), TRUE, NoBlock)>>]
    /\ StoreFrame

\* async fn put(&self, block)
StorePut(b) ==
    /\ Len(store.calls) < MaxOps
    /\ store' = [store EXCEPT !.blocks = MapPut(@, BlockCid(b), b),
                               !.calls = Append(@, Call("put", BlockCid(b), b)),
                               !.result = <<Returned(BlockCid(b), TRUE, NoBlock)>>]
    /\ StoreFrame

\* async fn remove(&self, cid)
StoreRemove(c) ==
    /\ Len(store.calls) < MaxOps
    /\ store' = [store EXCEPT !.blocks = MapRemove(@, c),
                               !.calls = Append(@, Call("remove", c, NoBlock)),
                               !.result = <<Returned(NoCid, TRUE, NoBlock)>>]
    /\ StoreFrame

(***************************************************************************)
(* The swarm task under the executor.  The task runs poll when it starts,  *)
(* after poll returned Ready, and after a wake-up.  The receiver of the    *)
(* network output channel stores the task's waker when it is polled empty  *)
(* (futures::ready! then returns Pending from poll), and a send on the     *)
(* channel wakes the task whose waker is stored.  The Pending at the end   *)
(* of the loop `for _ in 0..50` is returned with no waker stored anywhere. *)
(***************************************************************************)
\* where a return of poll leaves the task
Parks(out) ==
    IF out.type # "Pending" THEN "polling"
    ELSE IF out.waker THEN "parked" ELSE "asleep"

\* a send on the channel wakes the task parked on it
Wakes(w) == IF w = "parked" THEN "polling" ELSE w

\* the task runs poll
TaskPoll(ord) ==
    /\ wake = "polling"
    /\ LET r == PollLoop(netQ, PollLimit, dials, sinks, <<>>, ord) IN
        /\ netQ' = r.q
        /\ dials' = r.dials
        /\ sinks' = r.sinks
        /\ replies' = r.replies
        /\ swarm_out' = r.out
        /\ wake' = Parks(r.out)
    /\ UNCHANGED <<conn_vars, pipe_vars, cfg_vars, api_vars, side_vars, nextDial, msgQ, conQ, disQ,
                   nextMsg, con_count, codec>>

\* the network handle sends a Dial on the channel
SendDial(p) ==
    /\ Len(netQ) < net_limit
    /\ nextDial <= MaxDials
    /\ netQ' = Append(netQ, OutEv("Dial", p, nextDial, 0))
    /\ sinks' = [sinks EXCEPT ![nextDial] = SinkPending]
    /\ nextDial' = nextDial + 1
    /\ wake' = Wakes(wake)
    /\ replies' = <<>>
    /\ swarm_out' = NoOut
    /\ UNCHANGED <<conn_vars, pipe_vars, cfg_vars, api_vars, side_vars, codec, dials, msgQ, conQ, disQ,
                   nextMsg, con_count>>

\* the network handle sends another event on the channel
SendOther(t, p, c) ==
    /\ Len(netQ) < net_limit
    /\ netQ' = Append(netQ, OutEv(t, p, 0, c))
    /\ wake' = Wakes(wake)
    /\ replies' = <<>>
    /\ swarm_out' = NoOut
    /\ UNCHANGED <<conn_vars, dial_vars, pipe_vars, cfg_vars, api_vars, side_vars, codec, nextDial,
                   msgQ, conQ, disQ, nextMsg, con_count>>

(***************************************************************************)
(* The swarm closes only connections it has established, and delivers      *)
(* handler events only for connections established and not yet closed.     *)
(***************************************************************************)
SwarmEvent ==
    \/ \E p \in Peers : ConnectionEstablished(p)
    \/ \E x \in established : ConnectionClosed(x[1], x[2])
    \/ \E p \in Peers \cup {NoPeer}, e \in DialErrors : DialFailure(p, e)

HandlerEvent ==
    \/ \E x \in established, v \in Protocols : HandlerConnected(x[1], x[2], v)
    \/ \E x \in established : HandlerProtocolNotSupported(x[1], x[2])
    \/ \E x \in established, v \in Protocols : HandlerMessage(x[1], x[2], v)
    \/ \E x \in established : HandlerFailedToSendMessage(x[1], x[2])

DialRequest == \E p \in Peers : NetworkDial(p)

OtherRequest ==
    \/ \E x \in established : NetworkOther("SendMessage", x[1], x[2])
    \/ \E p \in Peers : NetworkOther("ProtectPeer", p, 0)
    \/ \E p \in Peers : NetworkOther("UnprotectPeer", p, 0)
    \/ NetworkOther("GenerateEvent", NoPeer, 0)

PollCall == \E ord \in Permutations(ConnIds) : Poll(ord)

Worker ==
    \/ MsgRecv
    \/ MsgVerify
    \/ MsgClientReceive
    \/ MsgServerReceive
    \/ ConWorker
    \/ DisWorker

(***************************************************************************)
(* The whole system.                                                       *)
(***************************************************************************)
Next ==
    \/ SwarmEvent
    \/ HandlerEvent
    \/ DialRequest
    \/ OtherRequest
    \/ PollCall
    \/ Worker

Spec == Init /\ [][Next]_vars

(***************************************************************************)
(* The behaviour on the swarm task with the dial bookkeeping: every swarm  *)
(* and handler event, Dial requests of the network handle and poll.  The   *)
(* worker tasks are not scheduled (they read none of the behaviour's maps  *)
(* and write nothing the behaviour reads), so the three channels only      *)
(* fill.  Config::default(): the server is enabled.                        *)
(***************************************************************************)
MaxDialMsgs == 1

InitDial == InitWith(MaxDialMsgs, {TRUE}, NoBlocks)

NextDial ==
    \/ SwarmEvent
    \/ HandlerEvent
    \/ DialRequest
    \/ PollCall

SpecDial == InitDial /\ [][NextDial]_vars

(***************************************************************************)
(* The same system when handler events arrive late: an event of a handler  *)
(* may reach the behaviour after its connection was closed.                *)
(***************************************************************************)
LateHandlerEvent ==
    \E p \in Peers, c \in 1..(nextConn - 1) :
        /\ <<p, c>> \notin established
        /\ \/ \E v \in Protocols : HandlerConnected(p, c, v)
           \/ HandlerProtocolNotSupported(p, c)
           \/ \E v \in Protocols : HandlerMessage(p, c, v)

NextLate ==
    \/ SwarmEvent
    \/ HandlerEvent
    \/ LateHandlerEvent
    \/ DialRequest
    \/ PollCall

SpecLate == InitDial /\ [][NextLate]_vars

(***************************************************************************)
(* poll and the requests of the network handle: connections come and go,   *)
(* client and server put requests of every kind on the network output      *)
(* channel, up to MaxPollQ of them wait there, and the swarm polls.        *)
(***************************************************************************)
MaxPollQ == 3

InitPoll == InitBase(MaxDialMsgs, {TRUE}, NoBlocks, MaxPollQ)

NextPoll ==
    \/ \E p \in Peers : ConnectionEstablished(p)
    \/ \E x \in established : ConnectionClosed(x[1], x[2])
    \/ DialRequest
    \/ OtherRequest
    \/ PollCall

SpecPoll == InitPoll /\ [][NextPoll]_vars

(***************************************************************************)
(* The same system with a swarm that answers: a peer with pending dials    *)
(* and no connection gets a DialFailure or a ConnectionEstablished, and    *)
(* the handler of a connection that is still Pending reports Connected,    *)
(* ProtocolNotSupported or a first Message.                                *)
(***************************************************************************)
DialAnswered(p) ==
    /\ p \in DOMAIN dials
    /\ p \notin DOMAIN connected_peers
    /\ \/ ConnectionEstablished(p)
       \/ \E e \in DialErrors : DialFailure(p, e)

HandlerReports(p) ==
    \E x \in established :
        /\ x[1] = p
        /\ x[2] \in DOMAIN connection_state
        /\ connection_state[x[2]] = Pending
        /\ \/ \E v \in Protocols : HandlerConnected(p, x[2], v)
           \/ HandlerProtocolNotSupported(p, x[2])
           \/ \E v \in Protocols : HandlerMessage(p, x[2], v)

SpecLive ==
    /\ InitDial
    /\ [][NextDial]_vars
    /\ \A p \in Peers : WF_vars(DialAnswered(p)) /\ WF_vars(HandlerReports(p))

(***************************************************************************)
(* The inbound pipeline: every swarm and handler event and the three       *)
(* worker tasks, with the server enabled or disabled.                      *)
(***************************************************************************)
NextPipe ==
    \/ SwarmEvent
    \/ HandlerEvent
    \/ Worker

SpecPipe == Init /\ [][NextPipe]_vars

(***************************************************************************)
(* The message worker on messages that carry blocks: connections are       *)
(* established, their handlers report messages, and the worker verifies    *)
(* and delivers them.                                                      *)
(***************************************************************************)
InitVerify == InitWith(MaxMsgs, BOOLEAN, AnyBlocks)

NextVerify ==
    \/ \E p \in Peers : ConnectionEstablished(p)
    \/ \E x \in established, v \in Protocols : HandlerMessage(x[1], x[2], v)
    \/ MsgRecv
    \/ MsgVerify
    \/ MsgClientReceive
    \/ MsgServerReceive

SpecVerify == InitVerify /\ [][NextVerify]_vars

(***************************************************************************)
(* The inbound pipeline with a call of stop.  The swarm drives the         *)
(* behaviour until stop is called, which takes the behaviour by value.     *)
(***************************************************************************)
MaxStopMsgs == 1

InitStop == InitWith(MaxStopMsgs, BOOLEAN, NoBlocks)

NextStop ==
    \/ stop.pc = "running" /\ SwarmEvent
    \/ stop.pc = "running" /\ HandlerEvent
    \/ Worker
    \/ StopCall
    \/ \E r \in Outcomes : StopReturns(r)
    \/ \E w \in Workers : WorkerEnds(w)

SpecStop == InitStop /\ [][NextStop]_vars

(***************************************************************************)
(* The compat codec on its own: messages are encoded and decoded again,    *)
(* and messages as they may come from the wire are decoded.                *)
(***************************************************************************)
SeqsUpTo(S, n) == UNION {[1..k -> S] : k \in 0..n}

WireEntries ==
    {Entry(b, wt, sdh, FALSE, 1) :
        b \in {CidToBytes(CidA), CidToBytes(CidV0), JunkBytes}, wt \in {"Block", "Have"},
        sdh \in BOOLEAN}
        \cup {Entry(CidToBytes(CidA), wt, sdh, TRUE, 1) : wt \in {"Block", "Have"}, sdh \in BOOLEAN}

PbMessages ==
    {PbMessage(IF Len(es) = 0 THEN <<>> ELSE <<Wantlist(es)>>, ps, bs) :
        es \in SeqsUpTo(WireEntries, MaxEntries),
        ps \in {<<>>, <<Payload(PrefixBytes(CidA), "d1")>>, <<Payload(JunkBytes, "d1")>>},
        bs \in {<<>>, <<BlockPresence(CidToBytes(CidB), "DontHave")>>,
                 <<BlockPresence(JunkBytes, "Have")>>}}

NextCodec ==
    \/ \E m \in CompatMessages : RoundTrip(m)
    \/ \E msg \in PbMessages : Decode(msg)
    \/ \E msg \in PbMessages : CodecDecode(WriteMessage(msg))

SpecCodec == Init /\ [][NextCodec]_vars

(***************************************************************************)
(* Two peers: the remote peer holds ServedBlocks, connects once and stays  *)
(* connected; the local client asks for blocks.  Every task is scheduled   *)
(* again and again (the swarm is polled, the worker tasks and the client   *)
(* run on the executor), and the remote peer answers.                      *)
(***************************************************************************)
Remote == "p1"

InitFetch == InitWith(MaxMsgs, BOOLEAN, {{b} : b \in ServedBlocks})

Connects == connected_peers = EmptyMap /\ ConnectionEstablished(Remote)

Handshake ==
    \E x \in established, v \in Protocols :
        /\ x[2] \in DOMAIN connection_state
        /\ connection_state[x[2]] = Pending
        /\ HandlerConnected(x[1], x[2], v)

Requests ==
    \/ \E c \in ServedCids : GetBlock(c)
    \/ \E ids \in SUBSET ServedCids \ {{}} : GetBlocks(ids)

WantsArrive == \E c \in ServedCids : PeerReceivesWant(Remote, c)

Answers == \E x \in established, v \in Protocols, b \in ServedBlocks : PeerSendsBlock(x[1], x[2], v, b)

Deliveries ==
    \/ \E b \in ServedBlocks : DeliverGet(b)
    \/ \E b \in ServedBlocks : StreamYield(b)
    \/ StreamCompletes

NextFetch ==
    \/ Connects
    \/ Handshake
    \/ Requests
    \/ WantsArrive
    \/ Answers
    \/ Deliveries
    \/ MsgRecv
    \/ MsgVerify
    \/ MsgClientReceive
    \/ MsgServerReceive
    \/ ConWorker

SpecFetch ==
    /\ InitFetch
    /\ [][NextFetch]_vars
    /\ WF_vars(Connects) /\ WF_vars(Handshake) /\ WF_vars(WantsArrive) /\ WF_vars(Answers)
    /\ WF_vars(Deliveries)
    /\ WF_vars(MsgRecv) /\ WF_vars(MsgVerify) /\ WF_vars(MsgClientReceive)
    /\ WF_vars(MsgServerReceive) /\ WF_vars(ConWorker)

(***************************************************************************)
(* A MemBlockStore and a caller that makes any calls in any order.         *)
(***************************************************************************)
NextStore ==
    \/ \E c \in StoreCids : StoreContains(c)
    \/ \E c \in StoreCids : StoreGet(c)
    \/ \E b \in StoreBlocks : StorePut(b)
    \/ \E c \in StoreCids : StoreRemove(c)

SpecStore == Init /\ [][NextStore]_vars

(***************************************************************************)
(* The behaviour in either mode (Config::default() or                      *)
(* Config::default_client_mode()) with one remote peer: its connections    *)
(* come and go, its handler reports messages, the worker tasks run, and    *)
(* the owner calls notify_new_blocks and wantlist_for_peer.                *)
(***************************************************************************)
MaxModeMsgs == 1

InitMode == InitWith(MaxModeMsgs, BOOLEAN, NoBlocks)

NextMode ==
    \/ ConnectionEstablished(Remote)
    \/ \E x \in established : ConnectionClosed(x[1], x[2])
    \/ \E x \in established, v \in Protocols : HandlerConnected(x[1], x[2], v)
    \/ \E x \in established, v \in Protocols : HandlerMessage(x[1], x[2], v)
    \/ Worker
    \/ NotifyNewBlocks({GoodBlock})
    \/ \E r \in Outcomes : ClientNotified(r)
    \/ ServerSends(GoodBlock)
    \/ \E r \in Outcomes : ServerNotified(r)
    \/ NotifyReturns
    \/ \E peer \in Peers \cup {Local}, ledger \in LedgerWants : WantlistForPeer(peer, Wanted, ledger)

SpecMode == InitMode /\ [][NextMode]_vars

(***************************************************************************)
(* verify_hash on its own: it is called with the multihash of a CID (a     *)
(* code the multihash table knows or not, and the digest of some data      *)
(* under some code) and with some bytes.                                   *)
(***************************************************************************)
HashCodes == KnownCodes \cup {"unknown", "reserved"}
HashDatas == BlockDatas \cup {"d3"}

HashInputs ==
    {Block(code, Digest(of, hashed), data) :
        code \in HashCodes, of \in HashCodes, hashed \in HashDatas, data \in HashDatas}

NextHash == \E b \in HashInputs : CallVerifyHash(b)

SpecHash == Init /\ [][NextHash]_vars

(***************************************************************************)
(* Calls of notify_new_blocks, one after the other, with the server        *)
(* enabled or disabled.                                                    *)
(***************************************************************************)
NewBlocks == SUBSET {GoodBlock, BadBlock, UnknownBlock} \ {{}}

NextNotify ==
    \/ \E B \in NewBlocks : NotifyNewBlocks(B)
    \/ \E r \in Outcomes : ClientNotified(r)
    \/ \E b \in NewBlocks : \E x \in b : ServerSends(x)
    \/ \E r \in Outcomes : ServerNotified(r)
    \/ NotifyReturns

SpecNotify == Init /\ [][NextNotify]_vars


(***************************************************************************)
(* Properties of the connection maps.                                      *)
(***************************************************************************)
\* the connections of peer p the behaviour tracks
ConnsOf(p) == MapGetOr(connected_peers, p, {})

\* C1: in every reachable state every peer that is a key of connected_peers has a
\* non-empty connection set.
C1_NonEmptySets == \A p \in DOMAIN connected_peers : connected_peers[p] # {}

\* a peer whose only connection was closed is no key any more, while another peer still is
C1_Witness ==
    \E p \in DOMAIN connected_peers, q \in Peers \ DOMAIN connected_peers :
        last_conn[q] # 0 /\ connected_peers[p] # {}

\* C2: every connection id that is a key of connection_state is in the connection set of
\* exactly one peer of connected_peers.
C2_OneOwner ==
    \A c \in DOMAIN connection_state :
        Cardinality({p \in DOMAIN connected_peers : c \in connected_peers[p]}) = 1

\* two peers, each with one tracked connection, one of them already answered
C2_Witness ==
    /\ Cardinality(DOMAIN connected_peers) = 2
    /\ Cardinality(DOMAIN connection_state) = 2
    /\ \E c \in DOMAIN connection_state : connection_state[c].tag = "Responsive"

\* C3: for every peer whose most recently established connection has state Responsive or
\* Unresponsive, the pending-dial map has no entry, whichever event caused that state.
C3_NoDialsOnceAnswered ==
    \A p \in Peers :
        (/\ last_conn[p] \in DOMAIN connection_state
         /\ connection_state[last_conn[p]].tag \in {"Responsive", "Unresponsive"})
        => p \notin DOMAIN dials

\* C4: between a peer's first connection and its full disconnect the behaviour calls
\* peer_connected for it at most once.
C4_OnePeerConnected == \A p \in Peers : con_count[p] <= 1

\* the queue q2 is q after one try_send of a notification for peer p
OfferedOnce(q, q2, p) ==
    /\ Len(q2) = Len(q) + 1
    /\ SubSeq(q2, 1, Len(q)) = q
    /\ q2[Len(q2)].peer = p

\* C5: a ConnectionClosed that removes the last connection of a peer offers exactly one
\* peer_disconnected for that peer to the disconnections channel, and a ConnectionClosed
\* that leaves the peer a connection offers none.
C5_DisconnectedOnLastClose ==
    [][\A x \in established :
          x \notin established' =>
              IF ConnsOf(x[1]) = {x[2]}
              THEN OfferedOnce(disQ, disQ', x[1])
              ELSE disQ' = disQ]_vars

\* a peer_disconnected is queued for a peer that has no connection left, while the other
\* connection established in the run is still open
C5_Witness ==
    /\ disQ # <<>>
    /\ disQ[Len(disQ)].peer \notin DOMAIN connected_peers
    /\ nextConn > 2


(***************************************************************************)
(* Properties of the inbound pipeline.                                     *)
(***************************************************************************)
\* an observer with this view of a peer has been told peer_connected for it
ToldConnected(view, p) == view[p] \in {"connected", "disconnected"}

\* a message of peer p that arrived before number n is still queued or in the worker's hands
EarlierMessagePending(p, n) ==
    \/ \E i \in 1..Len(msgQ) : msgQ[i].peer = p /\ msgQ[i].id < n
    \/ mw.pc # "idle" /\ mw.peer = p /\ mw.id < n

\* C6: for every interleaving of the three workers, client and server are told
\* peer_connected(P) before they get any message from P, and are told peer_disconnected(P)
\* only after the last message from P that the behaviour received before the disconnect.
C6_ConnectedFirstDisconnectedLast ==
    [][/\ clog' # clog => ToldConnected(cview, mw.peer)
       /\ slog' # slog => ToldConnected(sview, mw.peer)
       /\ Len(disQ') < Len(disQ) => ~EarlierMessagePending(Head(disQ).peer, Head(disQ).stamp)]_vars

\* the sequence of arrival numbers is strictly increasing
Increasing(log) == \A i, j \in 1..Len(log) : i < j => log[i] < log[j]

\* the log without the entry of the message in the worker's hands, when it has one
Settled(log, done) == IF mw.pc = "deliver" /\ done THEN SubSeq(log, 1, Len(log) - 1) ELSE log

\* C7: messages reach the client, and the server when it is enabled, in the order in which
\* the behaviour received them, and the message worker finishes one message with both
\* before it starts on the next.
C7_ArrivalOrder ==
    /\ Increasing(clog)
    /\ Increasing(slog)
    /\ IF server_on
       THEN Settled(clog, mw.cdone) = Settled(slog, mw.sdone)
       ELSE slog = <<>>
    /\ mw.pc = "deliver" /\ mw.cdone => clog # <<>> /\ clog[Len(clog)] = mw.id
    /\ mw.pc = "deliver" /\ mw.sdone /\ server_on => slog # <<>> /\ slog[Len(slog)] = mw.id

\* two messages went through the worker, to the client and to the server
C7_Witness ==
    /\ server_on
    /\ Len(clog) >= 2
    /\ clog = slog
    /\ mw.pc = "idle"

(***************************************************************************)
(* Properties of the dial bookkeeping.                                     *)
(***************************************************************************)
\* the tracked connections of peer p in state Responsive
ResponsiveOf(p) ==
    {c \in ConnsOf(p) : c \in DOMAIN connection_state /\ connection_state[c].tag = "Responsive"}

\* the dial ids registered in a pending-dial map
Registered(dl) == UNION {SeqElems(dl[p]) : p \in DOMAIN dl}

\* C8: poll dispatching Dial{peer, sink, id}: for a peer without connection the sink is
\* appended to the peer's pending dials and ToSwarm::Dial for the peer is returned; otherwise
\* the sink is sent Ok((c, Some(v))) for a connection c of the peer in state Responsive(v)
\* when there is one, and Ok((c, None)) for a Pending or Unresponsive connection c of the
\* peer only when there is none.
C8_DialDispatch ==
    [][Len(netQ') < Len(netQ) =>
        \A i \in 1..(Len(netQ) - Len(netQ')) :
            netQ[i].type = "Dial" =>
                IF netQ[i].peer \notin DOMAIN connected_peers
                THEN /\ i = Len(netQ) - Len(netQ')
                     /\ netQ[i].peer \in DOMAIN dials'
                     /\ dials'[netQ[i].peer] = Append(MapGetOr(dials, netQ[i].peer, <<>>), netQ[i].id)
                     /\ sinks'[netQ[i].id] = SinkPending
                     /\ swarm_out'.type = "Dial"
                     /\ swarm_out'.peer = netQ[i].peer
                ELSE /\ netQ[i].id \notin Registered(dials')
                     /\ sinks'[netQ[i].id].tag = "Ok"
                     /\ sinks'[netQ[i].id].conn \in ConnsOf(netQ[i].peer)
                     /\ sinks'[netQ[i].id].conn \in DOMAIN connection_state
                     /\ IF ResponsiveOf(netQ[i].peer) # {}
                        THEN connection_state[sinks'[netQ[i].id].conn] =
                                 Responsive(sinks'[netQ[i].id].protocol)
                        ELSE /\ sinks'[netQ[i].id].protocol = NoProtocol
                             /\ connection_state[sinks'[netQ[i].id].conn].tag
                                    \in {"Pending", "Unresponsive"}]_vars

\* one poll call answered a Dial for a connected peer without a protocol and then
\* registered a Dial for a peer without connection
C8_Witness ==
    /\ swarm_out.type = "Dial"
    /\ swarm_out.peer \in DOMAIN dials
    /\ \E i \in 1..MaxDials : sinks[i].tag = "Ok" /\ sinks[i].protocol = NoProtocol

\* C9: a Connected{protocol} event for a tracked connection of peer P makes the connection
\* Responsive(protocol), sends Ok((conn, Some(protocol))) to every sink pending for P and
\* leaves no entry for P in the pending-dial map.
C9_ConnectedResolvesDials ==
    [][\A x \in established, v \in Protocols :
          HandlerConnected(x[1], x[2], v) /\ x[2] \in DOMAIN connection_state =>
              /\ x[2] \in DOMAIN connection_state'
              /\ connection_state'[x[2]] = Responsive(v)
              /\ \A i \in SeqElems(MapGetOr(dials, x[1], <<>>)) : sinks'[i] = SinkOk(x[2], v)
              /\ x[1] \notin DOMAIN dials']_vars

\* every dial of the run was answered with a Responsive connection of its peer and no dial
\* is pending
C9_Witness ==
    /\ nextDial > MaxDials
    /\ dials = EmptyMap
    /\ \E x \in established :
          /\ x[2] \in DOMAIN connection_state
          /\ connection_state[x[2]].tag = "Responsive"
          /\ \A i \in 1..MaxDials : sinks[i] = SinkOk(x[2], connection_state[x[2]].protocol)

\* C10: a ProtocolNotSupported event for a tracked connection of peer P makes the connection
\* Unresponsive, sends Err("protocol not supported") to every sink pending for P, leaves no
\* entry for P in the pending-dial map and offers no peer_connected.
C10_NotSupportedFailsDials ==
    [][\A x \in established :
          HandlerProtocolNotSupported(x[1], x[2]) /\ x[2] \in DOMAIN connection_state =>
              /\ x[2] \in DOMAIN connection_state'
              /\ connection_state'[x[2]] = Unresponsive
              /\ \A i \in SeqElems(MapGetOr(dials, x[1], <<>>)) :
                    sinks'[i] = SinkErr("protocol not supported")
              /\ x[1] \notin DOMAIN dials'
              /\ conQ' = conQ
              /\ con_count' = con_count]_vars

\* a pending dial was failed by an unsupported protocol and its peer's connection is
\* Unresponsive
C10_Witness ==
    \E i \in 1..MaxDials, x \in established :
        /\ sinks[i] = SinkErr("protocol not supported")
        /\ x[2] \in DOMAIN connection_state
        /\ connection_state[x[2]] = Unresponsive
        /\ x[1] \notin DOMAIN dials

(***************************************************************************)
(* Properties of the Message and DialFailure handlers.                     *)
(***************************************************************************)
\* the queue q2 is q after one try_send of item x
OfferedItem(q, q2, x) == q2 = Append(q, x)

\* C11: a Message{msg, protocol} event for a tracked connection: a Pending or Unresponsive
\* connection becomes Responsive(protocol) and one peer_connected is offered; a connection
\* that is Responsive(v) keeps its state and no peer_connected is offered; in both cases the
\* message is offered to the message channel and the state it finds there is the updated one.
C11_MessagePromotes ==
    [][\A x \in established, v \in Protocols :
          HandlerMessage(x[1], x[2], v) /\ x[2] \in DOMAIN connection_state =>
              /\ IF connection_state[x[2]].tag \in {"Pending", "Unresponsive"}
                 THEN /\ connection_state' = MapPut(connection_state, x[2], Responsive(v))
                      /\ OfferedItem(conQ, conQ', x[1])
                 ELSE /\ connection_state' = connection_state
                      /\ conQ' = conQ
              /\ \E b \in payloads :
                    OfferedItem(msgQ, msgQ', [peer |-> x[1], blocks |-> b, id |-> nextMsg])
              /\ connection_state'[x[2]].tag = "Responsive"]_vars

\* two messages of the run's only connection are queued and one peer_connected was offered
\* for its peer: the second message found the connection Responsive
C11_Witness ==
    /\ nextConn = 2
    /\ Len(msgQ) = 2
    /\ Len(conQ) = 1
    /\ \E x \in established :
          /\ conQ[1] = x[1]
          /\ x[2] \in DOMAIN connection_state
          /\ connection_state[x[2]].tag = "Responsive"

\* C12: DialFailure(peer, error) with a known peer sends Err(error) to every sink pending for
\* the peer and removes the peer's entry, and leaves the pending dials of other peers, their
\* sinks, connected_peers and connection_state alone; a DialFailure without a peer id changes
\* nothing.
C12_DialFailureFailsDials ==
    [][\A e \in DialErrors :
          /\ \A p \in Peers :
                DialFailure(p, e) =>
                    /\ p \notin DOMAIN dials'
                    /\ \A q \in DOMAIN dials \ {p} : q \in DOMAIN dials' /\ dials'[q] = dials[q]
                    /\ DOMAIN dials' \subseteq DOMAIN dials
                    /\ \A i \in DOMAIN sinks :
                          sinks'[i] = IF i \in SeqElems(MapGetOr(dials, p, <<>>))
                                      THEN SinkErr(e) ELSE sinks[i]
                    /\ UNCHANGED <<connected_peers, connection_state>>
          /\ DialFailure(NoPeer, e) =>
                UNCHANGED <<dials, sinks, connected_peers, connection_state>>]_vars

\* one dial was failed with the swarm's error while another dial is still registered
C12_Witness ==
    \E i, j \in 1..MaxDials :
        /\ sinks[i] = SinkErr("dial error")
        /\ sinks[j] = SinkPending
        /\ j \in Registered(dials)

\* C13: every dial registered in the pending-dial map is eventually answered (Ok or Err) and
\* no longer registered, when the swarm answers every dial it was asked for and the handler
\* of every new connection reports Connected, ProtocolNotSupported or a first Message.
C13_DialsEventuallyResolved ==
    \A i \in 1..MaxDials :
        (i \in Registered(dials)) ~> (i \notin Registered(dials) /\ sinks[i].tag \in {"Ok", "Err"})

(***************************************************************************)
(* Properties of the three inbound channels.                               *)
(***************************************************************************)
\* C14: none of the three inbound channels ever holds more items than its capacity (an item
\* offered to a full channel is dropped).
C14_ChannelsBounded ==
    /\ Len(msgQ) <= ChanCap
    /\ Len(conQ) <= ChanCap
    /\ Len(disQ) <= ChanCap

(***************************************************************************)
(* Properties of the verification of inbound blocks.                       *)
(***************************************************************************)
\* the data of block b hash to the hash in its CID
HashMatches(b) == Digest(b.code, b.data) = b.digest

\* C15: client and server are given a message only after verify_blocks has run on it, and
\* every block the client is given has data whose multihash equals the hash in its CID.
C15_VerifiedBeforeDelivery ==
    /\ [](\A b \in cblocks : HashMatches(b))
    /\ [][clog' # clog \/ slog' # slog =>
            /\ mw.pc = "deliver"
            /\ \A b \in mw.blocks : HashMatches(b)]_vars

\* a message that carried a block with a wrong hash went through the worker, and the client
\* was given the good block of it
C15_Witness ==
    /\ GoodBlock \in cblocks
    /\ Len(clog) = 1
    /\ mw.pc = "idle"
    /\ msgQ = <<>>
    /\ nextMsg = 2

(***************************************************************************)
(* Properties of notify_new_blocks.                                        *)
(***************************************************************************)
\* C16: notify_new_blocks notifies the client first and the server second: the server sends
\* a block because of a call only after the client has finished with the notification of it,
\* the server is notified only when the client's processing succeeded, and the call returns
\* an error exactly when the client or the server returned one.
C16_ClientThenServer ==
    /\ nb.sent \subseteq nb.cdone
    /\ nb.pc = "server" \/ nb.server # "none" => nb.client = "Ok"
    /\ nb.pc \in {"client", "server"} => nb.result = "none"
    /\ nb.pc = "return" =>
            nb.result = IF nb.client = "Err" \/ nb.server = "Err" THEN "Err" ELSE "Ok"

\* a second call failed at the client and returned the error without a word to the server,
\* after a first call went through both and the server sent a block of it
C16_Witness ==
    /\ server_on
    /\ nb.calls = 2
    /\ nb.pc = "return"
    /\ nb.client = "Err"
    /\ nb.server = "none"
    /\ nb.result = "Err"
    /\ nb.sent # {}

(***************************************************************************)
(* Properties of stop.                                                     *)
(***************************************************************************)
\* C17: stop returns only after the three inbound worker tasks have ended.
C17_StopAwaitsWorkers == stop.pc = "returned" => stop.ended = Workers

(***************************************************************************)
(* Properties of the compat codec.                                         *)
(***************************************************************************)
\* a Request, a Have or DontHave Response, or a Block Response whose CID has the digest of
\* its data
RoundTripInput(m) == m.kind = "Block" => m.cid.digest = Digest(m.cid.code, m.data)

\* C18: for every CompatMessage m that is a Request, a Have/DontHave Response or a Block
\* Response whose CID is the one derived from its prefix and data, from_bytes(to_bytes(m))
\* succeeds and returns the one-element list [m].
C18_RoundTrip ==
    codec.op = "round_trip" /\ RoundTripInput(codec.input) => codec.output = Ok(<<codec.input>>)

\* a Block Response without data, whose data field is not written, came back as it was
C18_Witness ==
    /\ codec.op = "round_trip"
    /\ codec.input = ResponseBlock(CidEmpty, "")
    /\ codec.bytes.payload[1].data = <<>>
    /\ codec.output = Ok(<<codec.input>>)

\* C19: the message encoded from a Request, for want type Have and for want type Block, has
\* a wantlist of exactly one entry, with send_dont_have = true, cancel = false and
\* priority = 1, and no payloads and no presences; so has the message written to the wire.
C19_RequestEntry ==
    codec.op = "round_trip" /\ codec.input.kind = "Request" =>
        /\ Len(codec.msg.wantlist) = 1
        /\ Len(codec.msg.wantlist[1].entries) = 1
        /\ codec.msg.wantlist[1].entries[1].sendDontHave = TRUE
        /\ codec.msg.wantlist[1].entries[1].cancel = FALSE
        /\ codec.msg.wantlist[1].entries[1].priority = 1
        /\ codec.msg.wantlist[1].entries[1].wantType = codec.input.ty
        /\ Len(codec.msg.payload) = 0
        /\ Len(codec.msg.blockPresences) = 0
        /\ Len(codec.bytes.wantlist) = 1
        /\ Len(codec.bytes.wantlist[1].entries) = 1
        /\ codec.bytes.wantlist[1].entries[1].sendDontHave = <<TRUE>>
        /\ Len(codec.bytes.payload) = 0
        /\ Len(codec.bytes.blockPresences) = 0

\* a Request for a block was encoded: its want type is the default and is not written, its
\* send_dont_have is
C19_Witness ==
    /\ codec.op = "round_trip"
    /\ codec.input.kind = "Request"
    /\ codec.input.ty = "Block"
    /\ codec.bytes.wantlist[1].entries[1].wantType = <<>>
    /\ codec.bytes.wantlist[1].entries[1].sendDontHave = <<TRUE>>

\* the wantlist entries of a message
EntriesOf(msg) == IF Len(msg.wantlist) = 0 THEN <<>> ELSE msg.wantlist[1].entries

IsWanted(e) == e.sendDontHave

\* C20: from_message makes no Request of a wantlist entry with send_dont_have = false and
\* still decodes the rest: of a message whose other parts are decodable, the result is one
\* Request for each entry with send_dont_have = true, in order, followed by one Response for
\* each payload and each presence.
C20_SkipsWithoutDontHave ==
    (/\ codec.op = "from_message"
     /\ \A i \in 1..Len(EntriesOf(codec.input)) :
           EntriesOf(codec.input)[i].sendDontHave => EntriesOf(codec.input)[i].block # JunkBytes
     /\ \A i \in 1..Len(codec.input.payload) : codec.input.payload[i].prefix # JunkBytes
     /\ \A i \in 1..Len(codec.input.blockPresences) : codec.input.blockPresences[i].cid # JunkBytes)
    => /\ codec.output.ok
       /\ LET wanted == SelectSeq(EntriesOf(codec.input), IsWanted)
              parts == codec.output.val
          IN /\ Len(parts) = Len(wanted) + Len(codec.input.payload) + Len(codec.input.blockPresences)
             /\ \A i \in 1..Len(parts) :
                   IF i <= Len(wanted)
                   THEN /\ parts[i].kind = "Request"
                        /\ parts[i].ty = wanted[i].wantType
                        /\ CidToBytes(parts[i].cid) = wanted[i].block
                   ELSE parts[i].kind # "Request"

\* a message with an entry without send_dont_have (and without a decodable CID) before an
\* entry with it, a payload and a presence was decoded to three parts
C20_Witness ==
    /\ codec.op = "from_message"
    /\ Len(EntriesOf(codec.input)) = 2
    /\ ~EntriesOf(codec.input)[1].sendDontHave
    /\ EntriesOf(codec.input)[1].block = JunkBytes
    /\ EntriesOf(codec.input)[2].sendDontHave
    /\ codec.output.ok
    /\ Len(codec.output.val) = 3
    /\ codec.output.val[1].kind = "Request"
    /\ codec.output.val[2].kind = "Block"
    /\ codec.output.val[3].kind = "Have"

(***************************************************************************)
(* Properties of the codec's framing.                                      *)
(***************************************************************************)
\* C21: the codec decodes a frame whose length is the largest accepted length, and fails
\* on a longer frame without delivering any of its parts.
C21_SizeLimit ==
    codec.op = "decode" =>
        /\ FrameLen(codec.bytes) > MaxMessageSize => codec.output = Err
        /\ FrameLen(codec.bytes) = MaxMessageSize => codec.output = FromBytes(codec.bytes)

(***************************************************************************)
(* Properties of the block exchange between two peers.                     *)
(***************************************************************************)
\* the block of the remote peer with CID c
ServedBlock(c) == CHOOSE b \in ServedBlocks : BlockCid(b) = c

Times(seq, b) == Cardinality({i \in 1..Len(seq) : seq[i] = b})

RECURSIVE Reference(_, _)
Reference(calls, c) ==
    IF Len(calls) = 0 THEN NoBlock
    ELSE LET last == calls[Len(calls)]
             before == SubSeq(calls, 1, Len(calls) - 1)
         IN IF last.cid = c /\ last.op = "put" THEN last.block
            ELSE IF last.cid = c /\ last.op = "remove" THEN NoBlock
            ELSE Reference(before, c)

\* C24: after any calls of put, remove, get and contains, the store holds what a reference
\* map keyed by CID holds (the block of the latest put of a CID not followed by a remove),
\* and the last call returned what the reference gives: put its block's CID, contains and
\* get the reference's entry as it was before the call, remove Ok also for an absent CID.
C24_StoreIsMap ==
    /\ \A c \in StoreCids :
          /\ c \in DOMAIN store.blocks <=> Reference(store.calls, c) # NoBlock
          /\ c \in DOMAIN store.blocks => store.blocks[c] = Reference(store.calls, c)
    /\ Len(store.calls) > 0 =>
          LET last == store.calls[Len(store.calls)]
              before == SubSeq(store.calls, 1, Len(store.calls) - 1)
              ret == store.result[1]
          IN CASE last.op = "put" -> ret = Returned(BlockCid(last.block), TRUE, NoBlock)
               [] last.op = "contains" -> ret.flag = (Reference(before, last.cid) # NoBlock)
               [] last.op = "get" ->
                      /\ ret.block = Reference(before, last.cid)
                      /\ ret.flag = (Reference(before, last.cid) # NoBlock)
               [] last.op = "remove" ->
                      /\ ret = Returned(NoCid, TRUE, NoBlock)
                      /\ \A c \in StoreCids \ {last.cid} :
                            Reference(before, c) = MapGetOr(store.blocks, c, NoBlock)

\* a block was put over another with the same CID, and get returned the newer one
C24_Witness ==
    /\ Len(store.calls) = 3
    /\ store.calls[1].op = "put" /\ store.calls[2].op = "put" /\ store.calls[3].op = "get"
    /\ store.calls[1].cid = store.calls[2].cid /\ store.calls[2].cid = store.calls[3].cid
    /\ store.calls[1].block # store.calls[2].block
    /\ store.result[1].block = store.calls[2].block

(***************************************************************************)
(* Properties of the client mode.                                          *)
(***************************************************************************)
\* C25: without a server config there is no server: server() is None, the server is
\* given no message and no peer_connected or peer_disconnected, notify_new_blocks goes to
\* the client alone (the server is neither notified nor sends), the worker is done with a
\* message once the client has it, and wantlist_for_peer returns no CID for a peer that
\* is not the local one.
C25_ClientMode ==
    /\ [](~server_on =>
            /\ ServerOf(server_on) = <<>>
            /\ slog = <<>>
            /\ \A p \in Peers : sview[p] = "none"
            /\ nb.server = "none" /\ nb.sent = {}
            /\ nb.pc # "server"
            /\ wl.peer \in Peers => wl.result = {})
    /\ [][~server_on /\ mw.pc = "deliver" /\ mw' # mw =>
              mw' = IdleWorker /\ clog' = Append(clog, mw.id)]_vars

\* in client mode the client has got a message, the peer's connection and disconnection
\* and new blocks, and the wantlist of the remote peer has been asked for
C25_Witness ==
    /\ ~server_on
    /\ clog # <<>>
    /\ cview[Remote] = "disconnected"
    /\ nb.cdone # {} /\ nb.result = "Ok"
    /\ wl.peer = Remote

(***************************************************************************)
(* Properties of the connection states under late handler events.          *)
(***************************************************************************)
\* C26: a connection gets its entry in connection_state from ConnectionEstablished alone:
\* the entry is Pending, the id is the one the swarm has just established and it is in
\* the peer's connection set.  A Connected, ProtocolNotSupported or Message event for a
\* connection without an entry creates no entry, resolves no dial and sends no
\* peer_connected.
C26_EntriesFromEstablished ==
    /\ [][\A c \in ConnIds :
              c \notin DOMAIN connection_state /\ c \in DOMAIN connection_state' =>
                  /\ connection_state'[c] = Pending
                  /\ c = nextConn /\ nextConn' = nextConn + 1
                  /\ \E p \in Peers :
                        /\ <<p, c>> \in established' \ established
                        /\ p \in DOMAIN connected_peers' /\ c \in connected_peers'[p]]_vars
    /\ [][\A p \in Peers, c \in ConnIds :
              /\ c \notin DOMAIN connection_state
              /\ \/ \E v \in Protocols : HandlerConnected(p, c, v)
                 \/ HandlerProtocolNotSupported(p, c)
                 \/ \E v \in Protocols : HandlerMessage(p, c, v)
              => UNCHANGED <<connection_state, connected_peers, dials, sinks, conQ>>]_vars

\* a Message event was handled and no peer_connected has ever been sent, while a dial for
\* a peer is registered and a connection had been established: the event came late
C26_Witness ==
    /\ nextMsg = 2
    /\ conQ = <<>>
    /\ nextConn > 1
    /\ connection_state = EmptyMap
    /\ dials # EmptyMap

(***************************************************************************)
(* Properties of poll.                                                     *)
(***************************************************************************)
\* the events a step takes from the network output channel
Taken == SubSeq(netQ, 1, Len(netQ) - Len(netQ'))

\* the swarm has a connection to the peer
HasConnection(p) == \E x \in established : x[1] = p

\* C27: poll answers every UnprotectPeer it takes, true when the peer has a connection and
\* false when it has none, and answers nothing else; a ProtectPeer or UnprotectPeer for a
\* peer with a connection ends the call with NotifyHandler::Any for that peer, and one
\* for a peer without connection notifies no handler.
C27_ProtectUnprotect ==
    [][(\E ord \in Permutations(ConnIds) : Poll(ord)) =>
          LET unprotects == SelectSeq(Taken, LAMBDA e : e.type = "UnprotectPeer")
          IN /\ replies' = [i \in 1..Len(unprotects) |-> HasConnection(unprotects[i].peer)]
             /\ \A i \in 1..Len(Taken) :
                   Taken[i].type \in {"ProtectPeer", "UnprotectPeer"} =>
                       IF HasConnection(Taken[i].peer)
                       THEN /\ i = Len(Taken)
                            /\ swarm_out' = SwarmNotify(Taken[i].peer, "Any", 0,
                                                IF Taken[i].type = "ProtectPeer" THEN "Protect"
                                                ELSE "Unprotect")
                       ELSE i = Len(Taken) => swarm_out'.type = "Pending"]_vars

\* one poll call answered false and then true, and notified a handler of the second peer
C27_Witness ==
    /\ replies = <<FALSE, TRUE>>
    /\ swarm_out.type = "Unprotect" /\ swarm_out.handler = "Any"

\* the event makes poll return an action to the swarm
Yields(ev) ==
    CASE ev.type = "Dial" -> ~HasConnection(ev.peer)
      [] ev.type \in {"GenerateEvent", "SendMessage"} -> TRUE
      [] ev.type \in {"ProtectPeer", "UnprotectPeer"} -> HasConnection(ev.peer)

\* the action the event yields
ActionOf(ev) ==
    CASE ev.type = "Dial" -> SwarmDial(ev.peer)
      [] ev.type = "GenerateEvent" -> SwarmGenerate
      [] ev.type = "SendMessage" -> SwarmNotify(ev.peer, "One", ev.conn, "Message")
      [] ev.type = "ProtectPeer" -> SwarmNotify(ev.peer, "Any", 0, "Protect")
      [] ev.type = "UnprotectPeer" -> SwarmNotify(ev.peer, "Any", 0, "Unprotect")

\* C28: one poll call takes the events from the front of the channel in their order, at
\* most PollLimit of them (50 in the source); it stops at the first event that yields a
\* swarm action and returns that one action, and returns Pending when none of the events
\* it took yields one.
C28_PollBatch ==
    [][(\E ord \in Permutations(ConnIds) : Poll(ord)) =>
          /\ Len(netQ') <= Len(netQ)
          /\ netQ' = SubSeq(netQ, Len(Taken) + 1, Len(netQ))
          /\ Len(Taken) <= PollLimit
          /\ \A i \in 1..(Len(Taken) - 1) : ~Yields(Taken[i])
          /\ IF Len(Taken) > 0 /\ Yields(Taken[Len(Taken)])
             THEN swarm_out' = ActionOf(Taken[Len(Taken)])
             ELSE /\ swarm_out'.type = "Pending"
                  /\ Len(Taken) = PollLimit \/ netQ' = <<>>]_vars

\* a poll call took PollLimit events, none of which yielded an action, and left the next
\* event in the channel
C28_Witness ==
    /\ replies = <<FALSE, FALSE>>
    /\ swarm_out = PollPending(FALSE)
    /\ netQ # <<>>

(***************************************************************************)
(* Properties of verify_hash.                                              *)
(***************************************************************************)
\* C29: verify_hash(cid, bytes) is None exactly when the code of the CID's multihash is
\* not supported; for a supported code it is Some(true) when the digest of the bytes
\* under that code is the CID's multihash, and Some(false) when it is not.
C29_VerifyHash ==
    vh.called =>
        LET supported == vh.block.code \in KnownCodes
            same == vh.block.digest = Digest(vh.block.code, vh.block.data)
        IN /\ vh.result.some <=> supported
           /\ supported /\ same => vh.result = [some |-> TRUE, eq |-> TRUE]
           /\ supported /\ ~same => vh.result = [some |-> TRUE, eq |-> FALSE]

\* the bytes hash to another digest than the CID's, under a code that is supported
C29_Witness ==
    /\ vh.called
    /\ vh.block.code \in KnownCodes
    /\ vh.block.digest = Digest(vh.block.code, "d2")
    /\ vh.block.data = "d1"
    /\ vh.result = [some |-> TRUE, eq |-> FALSE]

(***************************************************************************)
(* Properties of decoding a whole message.                                 *)
(***************************************************************************)
\* the part does not decode
BadEntry(e) == e.sendDontHave /\ ~CidFromBytes(e.block).ok
BadPayload(p) ==
    IF PrefixNew(p.prefix).ok THEN ~PrefixToCid(PrefixNew(p.prefix).val, p.data).ok ELSE TRUE
BadPresence(b) == ~CidFromBytes(b.cid).ok

\* some part of the message does not decode
HasBadPart(msg) ==
    \/ \E i \in 1..Len(EntriesOf(msg)) : BadEntry(EntriesOf(msg)[i])
    \/ \E i \in 1..Len(msg.payload) : BadPayload(msg.payload[i])
    \/ \E i \in 1..Len(msg.blockPresences) : BadPresence(msg.blockPresences[i])

\* C30: when a wantlist entry with send_dont_have, a payload or a block presence of a
\* message has a CID or prefix that does not decode, decoding the message is an error and
\* gives none of its parts, those before the bad one included.
C30_AllOrNothing ==
    codec.op \in {"from_message", "decode"} /\ HasBadPart(codec.msg) => codec.output = Err

\* a message whose first part, a want, decodes and whose last part, a presence, does not
C30_Witness ==
    /\ codec.op = "from_message"
    /\ Len(EntriesOf(codec.msg)) > 0
    /\ ~BadEntry(EntriesOf(codec.msg)[1]) /\ EntriesOf(codec.msg)[1].sendDontHave
    /\ Len(codec.msg.payload) = 0
    /\ Len(codec.msg.blockPresences) = 1 /\ BadPresence(codec.msg.blockPresences[1])
    /\ \A i \in 1..Len(EntriesOf(codec.msg)) : ~BadEntry(EntriesOf(codec.msg)[i])
    /\ codec.output = Err

(***************************************************************************)
(* Properties of the behaviour that follow from several handlers together. *)
(***************************************************************************)
\* C31: a Dial that poll takes from the channel for a peer with an entry in connected_peers
\* has its sink sent a result in that poll call: the sink is neither dropped without a
\* result nor left pending, and its id is in no list of the pending-dial map, whatever
\* connection and handler events came before, late handler events included.
C31_ConnectedDialResolved ==
    [][Len(netQ') < Len(netQ) =>
          \A i \in 1..Len(Taken) :
              Taken[i].type = "Dial" /\ Taken[i].peer \in DOMAIN connected_peers =>
                  /\ sinks'[Taken[i].id].tag \in {"Ok", "Err"}
                  /\ Taken[i].id \notin Registered(dials')]_vars

\* a Dial was answered with a connection that is Unresponsive, the peer's second one,
\* after its first was closed
C31_Witness ==
    /\ swarm_out.type = "Pending"
    /\ nextConn = 3
    /\ Cardinality(established) = 1
    /\ \E i \in 1..MaxDials :
          /\ sinks[i].tag = "Ok"
          /\ sinks[i].protocol = NoProtocol
          /\ sinks[i].conn = 2
          /\ 2 \in DOMAIN connection_state
          /\ connection_state[2] = Unresponsive

\* C32: peer_disconnected(P) is offered to the disconnections channel only when exactly
\* one peer_connected(P) was offered to the connections channel since the last
\* peer_disconnected(P) (or since the start), and peer_connected(P) only when none was:
\* the notifications for a peer alternate, starting with peer_connected.
C32_NotificationsAlternate ==
    [][\A p \in Peers :
          /\ OfferedOnce(disQ, disQ', p) => con_count[p] = 1
          /\ (Len(conQ') = Len(conQ) + 1 /\ conQ'[Len(conQ')] = p) => con_count[p] = 0]_vars

(***************************************************************************)
(* The swarm task and the senders of the network output channel: peers get *)
(* connections, the network handle sends requests of every kind, and the   *)
(* task polls when the executor has a reason to run it.                    *)
(***************************************************************************)
NextTask ==
    \/ \E p \in Peers : ConnectionEstablished(p)
    \/ \E p \in Peers : SendDial(p)
    \/ \E x \in established : SendOther("SendMessage", x[1], x[2])
    \/ \E p \in Peers : SendOther("ProtectPeer", p, 0)
    \/ \E p \in Peers : SendOther("UnprotectPeer", p, 0)
    \/ SendOther("GenerateEvent", NoPeer, 0)
    \/ \E ord \in Permutations(ConnIds) : TaskPoll(ord)

\* the executor runs a task that is ready to run
SpecTask == InitPoll /\ [][NextTask]_vars /\ WF_vars(\E ord \in Permutations(ConnIds) : TaskPoll(ord))

\* the Dial with id i waits in the network output channel
Queued(i) == \E k \in 1..Len(netQ) : netQ[k].type = "Dial" /\ netQ[k].id = i

\* C33: when the swarm task polls at its start, after a Ready return and after a wake-up
\* of the channel, and at no other time, every Dial put on the network output channel is
\* eventually taken from it by poll.
C33_EventuallyDispatched == \A i \in 1..MaxDials : Queued(i) ~> ~Queued(i)

\* the entry is the only one of the wantlist es that could yield its Request
OnlySource(es, e) ==
    \A j \in 1..Len(es) : es[j].block = e.block /\ es[j].wantType = e.wantType => es[j].cancel

\* C34: from_message makes no Request of a wantlist entry with cancel = true, whatever its
\* send_dont_have and want type: when no other entry asks for the same CID with the same
\* want type, the decoded parts hold no Request for it.
C34_CancelIsNoWant ==
    codec.op = "from_message" /\ codec.output.ok =>
        \A i \in 1..Len(EntriesOf(codec.input)) :
            LET e == EntriesOf(codec.input)[i]
            IN e.cancel /\ OnlySource(EntriesOf(codec.input), e) =>
                   ~\E k \in 1..Len(codec.output.val) :
                       /\ codec.output.val[k].kind = "Request"
                       /\ codec.output.val[k].ty = RequestTypeOf(e.wantType)
                       /\ CidToBytes(codec.output.val[k].cid) = e.block

====
